---- MODULE Spec2Model ----
(***************************************************************************)
(* A model of the DaycareMoments application: the provider registries      *)
(* (app/services/llm, app/services/llm_service.py, app/services/storage,   *)
(* app/services/notification_service.py), the storage adapters, the        *)
(* authentication helpers (app/utils/auth.py), the tenant-scoped page      *)
(* queries (pages/*.py), the keyword classifier                            *)
(* (app/services/photo_analysis.py), the photo processor with the face and *)
(* LLM services it calls (app/services/photo_processor.py,                 *)
(* face_recognition_service.py, llm_service.py) and the notification       *)
(* senders.                                                                *)
(*                                                                         *)
(* The module holds several specifications over one set of variables; each *)
(* specification drives one subsystem and leaves the variables of the      *)
(* others at their idle values.                                            *)
(***************************************************************************)
EXTENDS Integers, Sequences, FiniteSets, TLC

VARIABLES
    \* ---- process configuration and the service singletons
    cfg,                  \* app.config.Config class attributes read from the environment
    phase,                \* "importing" | "running" | "config_error"
    llm_service_pkg,      \* app/services/llm/__init__.py  _llm_service
    llm_service,          \* app/services/llm_service.py   _llm_service
    storage_service,      \* app/services/storage/__init__.py _storage_service
    notification_service, \* app/services/notification_service.py _notification_service
    next_instance,        \* identity of the next object a constructor creates
    reg_hist,             \* history: per getter, what it constructed and returned
    last_call,            \* the getter call made last and how it ended
    \* ---- storage
    fs,                   \* the local filesystem: path of a regular file -> its bytes
    uuid_next,            \* the value the next uuid.uuid4() call yields
    uploads,              \* history: the (url, data) of every upload that returned
    deleted,              \* history: the urls a delete call was made on
    last_io,              \* the storage call made last and its result
    \* ---- database tables (app/database/models.py)
    users,                \* rows of table users
    children,             \* rows of table children
    parent_children,      \* rows of the association table: <<user_id, child_id>>
    photos,               \* rows of table photos
    activities,           \* rows of table activities
    next_id,              \* per table, the primary key generate_uuid() yields next
    \* ---- authentication (app/utils/auth.py)
    auth_result,          \* the register_user / authenticate_user call made last
    registered,           \* history: the arguments each user was registered with
    bcrypt_build,         \* which bcrypt package the process has installed
    \* ---- pages
    shown,                \* what the page rendered last read from the database
    session,              \* st.session_state of the browser session
    request,              \* the page script running: its page and position
    \* ---- keyword classifier (app/services/photo_analysis.py)
    caption,              \* the text handed to the classifier
    category,             \* what the classifier returned for it
    again,                \* what a second call on the same text returned
    \* ---- photo processing and notifications (app/services)
    analysis,             \* the analyze_photo_activity call made last
    ident,                \* the identify_child call made last
    proc,                 \* the photo processor or face service call made last
    notif,                \* the dispatch attempts made and the send call made last
    \* ---- threads
    monitor,              \* the GoogleDriveSyncService object and its monitoring thread
    inflight              \* the service calls running concurrently, each in its own session

regVars == <<cfg, phase, llm_service_pkg, llm_service, storage_service,
             notification_service, next_instance, reg_hist, last_call>>

stoVars == <<fs, uuid_next, uploads, deleted, last_io>>

dbVars == <<users, children, parent_children, photos, activities, next_id>>

authVars == <<auth_result, registered, bcrypt_build>>

pageVars == <<shown, session, request>>

clsVars == <<caption, category, again>>

svcVars == <<analysis, ident, proc, notif>>

threadVars == <<monitor, inflight>>

\* what the actions of one subsystem leave alone
nonRegVars == <<stoVars, dbVars, authVars, pageVars, clsVars, svcVars, threadVars>>
nonStoVars == <<regVars, dbVars, authVars, pageVars, clsVars, svcVars, threadVars>>
nonDbVars == <<regVars, stoVars, clsVars, svcVars, threadVars>>
nonClsVars == <<regVars, stoVars, dbVars, authVars, pageVars, svcVars, threadVars>>
nonSvcVars == <<regVars, stoVars, dbVars, authVars, pageVars, clsVars, threadVars>>
nonProcVars == <<regVars, stoVars, authVars, pageVars, clsVars, analysis, ident, notif,
                threadVars>>
nonThreadVars == <<regVars, stoVars, authVars, pageVars, clsVars, svcVars>>

vars == <<regVars, stoVars, dbVars, authVars, pageVars, clsVars, svcVars, threadVars>>

(***************************************************************************)
(* Bounds of the model.                                                    *)
(***************************************************************************)
\* getter calls made in one process run, per getter
MaxCalls == 2
\* upload calls made on one storage service
MaxUploads == 2
\* users registered
MaxUsers == 2
\* children, photos and activities created and training images stored, together
MaxRows == 4
\* characters of a classified text
MaxTextLen == 12
\* lines of one reply of the LLM provider
MaxReplyLines == 3
\* children of the tables identify_child is checked on, and children enrolled
\* with training photos
MaxFaceChildren == 2
\* send calls made on the notification service
MaxSends == 3
\* the photo ids one process_batch call is given
MaxBatch == 3
\* the polling cycles the clock tells apart
MaxTicks == 3
\* the training images one call or one enrollment is given
MaxImages == 3
(***************************************************************************)
(* Configuration (app/config.py).                                          *)
(***************************************************************************)
\* values the environment may give LLM_PROVIDER (default "openai")
LLMProviderValues == {"openai", "gemini", "claude", "ollama", "OpenAI", "bogus"}
\* values the environment may give STORAGE_TYPE (default "local")
StorageTypeValues == {"local", "s3", "r2", "google_drive", "gdrive", "bogus"}
EnvValues == {"development", "production"}

\* the names config.py documents as selectable: "Swappable: openai, gemini, claude, ollama"
RecognizedLLM == {"openai", "gemini", "claude", "ollama"}
\* the names the storage registry dispatches on, plus its documented default "local"
RecognizedStorage == {"google_drive", "s3", "r2", "local"}

\* str.lower() on the provider names of the model
Lower(s) == IF s = "OpenAI" THEN "openai" ELSE s

ConfigValues ==
    [LLM_PROVIDER : LLMProviderValues,
     STORAGE_TYPE : StorageTypeValues,
     ENV : EnvValues,
     OPENAI_API_KEY : BOOLEAN,     \* TRUE: the variable is set and non-empty
     GEMINI_API_KEY : BOOLEAN,
     DATABASE_URL : BOOLEAN]

\* Config.validate: the list of error messages (a set here; only emptiness is used)
validate(c) ==
    (IF c.LLM_PROVIDER = "openai" /\ ~c.OPENAI_API_KEY
        THEN {"OPENAI_API_KEY is required when LLM_PROVIDER=openai"}
     ELSE IF c.LLM_PROVIDER = "gemini" /\ ~c.GEMINI_API_KEY
        THEN {"GEMINI_API_KEY is required when LLM_PROVIDER=gemini"}
     ELSE {})
    \cup
    (IF ~c.DATABASE_URL THEN {"DATABASE_URL or TURSO_DB_URL is required"} ELSE {})

(***************************************************************************)
(* Adapter constructors.  A constructor yields [ok, adapter, error].       *)
(***************************************************************************)
Built(a) == [ok |-> TRUE, adapter |-> a, error |-> "none"]
Raised(e) == [ok |-> FALSE, adapter |-> "none", error |-> e]

\* OpenAI(api_key=None) raises when no key is configured
OpenAIAdapter(c) == IF c.OPENAI_API_KEY THEN Built("OpenAIAdapter") ELSE Raised("OpenAIError")
\* genai.configure accepts a missing key
GeminiAdapter(c) == Built("GeminiAdapter")
ClaudeAdapter(c) == Built("ClaudeAdapter")
\* reads Config.OLLAMA_BASE_URL, an attribute Config does not define (it has OLLAMA_URL)
OllamaAdapter(c) == Raised("AttributeError")

GoogleDriveAdapter(c) == Built("GoogleDriveAdapter")
S3Adapter(c) == Built("S3Adapter")
R2Adapter(c) == Built("R2Adapter")
LocalAdapter(c) == Built("LocalAdapter")

(***************************************************************************)
(* Service constructors.                                                   *)
(***************************************************************************)
\* app/services/llm/__init__.py  LLMService.__init__
LLMService_pkg_init(c) ==
    IF c.LLM_PROVIDER = "openai" THEN OpenAIAdapter(c)
    ELSE IF c.LLM_PROVIDER = "gemini" THEN GeminiAdapter(c)
    ELSE IF c.LLM_PROVIDER = "claude" THEN ClaudeAdapter(c)
    ELSE OllamaAdapter(c)

\* app/services/llm_service.py  LLMService.__init__
LLMService_init(c) ==
    LET provider == Lower(c.LLM_PROVIDER) IN
    IF provider = "openai" THEN OpenAIAdapter(c)
    ELSE IF provider = "gemini" THEN GeminiAdapter(c)
    ELSE Raised("ValueError")

\* app/services/storage/__init__.py  StorageService.__init__
StorageService_init(c) ==
    IF c.STORAGE_TYPE = "google_drive" THEN GoogleDriveAdapter(c)
    ELSE IF c.STORAGE_TYPE = "s3" THEN S3Adapter(c)
    ELSE IF c.STORAGE_TYPE = "r2" THEN R2Adapter(c)
    ELSE LocalAdapter(c)

\* NotificationService.__init__ reads its settings with os.getenv and swallows
\* every Twilio initialisation error
NotificationService_init(c) == Built("NotificationService")

(***************************************************************************)
(* The singleton getters.                                                  *)
(***************************************************************************)
Getters == {"llm", "llm_service", "storage", "notification"}

\* a module-level `_service = None`
NoService == [id |-> 0, adapter |-> "none"]

\* a getter whose `is None` test is missing: it constructs on every call
NeedsConstruction_always(svc) == TRUE

\* `if _service is None:`
NeedsConstruction(svc) == svc = NoService

\* One call of a getter on the global `svc`, where `built` is what the service
\* constructor would yield and `nid` the identity of a newly created object:
\* the new value of the global, and what the call hands to its caller.
Getter(svc, built, nid) ==
    IF NeedsConstruction(svc)
    THEN IF built.ok
         THEN [service |-> [id |-> nid, adapter |-> built.adapter],
               outcome |-> "returned", returned |-> nid, constructed |-> TRUE]
         ELSE [service |-> svc,
               outcome |-> built.error, returned |-> 0, constructed |-> FALSE]
    ELSE [service |-> svc,
          outcome |-> "returned", returned |-> svc.id, constructed |-> FALSE]

NoHist == [calls |-> 0, constructed |-> 0, first |-> 0, returned |-> {}, ok_calls |-> 0]

\* bookkeeping of a getter call (history only; the code keeps none of it)
Record(g, res) ==
    /\ reg_hist' = [reg_hist EXCEPT ![g] =
          [calls |-> @.calls + 1,
           constructed |-> @.constructed + (IF res.constructed THEN 1 ELSE 0),
           first |-> IF @.first = 0 /\ res.constructed THEN res.returned ELSE @.first,
           returned |-> IF res.outcome = "returned" THEN @.returned \cup {res.returned}
                        ELSE @.returned,
           ok_calls |-> @.ok_calls + (IF res.outcome = "returned" THEN 1 ELSE 0)]]
    /\ next_instance' = IF res.constructed THEN next_instance + 1 ELSE next_instance
    /\ last_call' = [getter |-> g, outcome |-> res.outcome]

\* Importing app.config: the class body reads the environment, then
\* `config_errors = Config.validate()` and the raise in production.
ImportConfig ==
    /\ phase = "importing"
    /\ phase' = IF validate(cfg) # {} /\ cfg.ENV = "production"
                THEN "config_error" ELSE "running"
    /\ UNCHANGED <<cfg, llm_service_pkg, llm_service, storage_service,
                   notification_service, next_instance, reg_hist, last_call, nonRegVars>>

\* app.services.llm.get_llm_service
get_llm_service_pkg ==
    /\ phase = "running"
    /\ reg_hist["llm"].calls < MaxCalls
    /\ LET res == Getter(llm_service_pkg, LLMService_pkg_init(cfg), next_instance) IN
         /\ llm_service_pkg' = res.service
         /\ Record("llm", res)
    /\ UNCHANGED <<cfg, phase, llm_service, storage_service, notification_service, nonRegVars>>

\* app.services.llm_service.get_llm_service
get_llm_service ==
    /\ phase = "running"
    /\ reg_hist["llm_service"].calls < MaxCalls
    /\ LET res == Getter(llm_service, LLMService_init(cfg), next_instance) IN
         /\ llm_service' = res.service
         /\ Record("llm_service", res)
    /\ UNCHANGED <<cfg, phase, llm_service_pkg, storage_service, notification_service, nonRegVars>>

\* app.services.storage.get_storage_service
get_storage_service ==
    /\ phase = "running"
    /\ reg_hist["storage"].calls < MaxCalls
    /\ LET res == Getter(storage_service, StorageService_init(cfg), next_instance) IN
         /\ storage_service' = res.service
         /\ Record("storage", res)
    /\ UNCHANGED <<cfg, phase, llm_service_pkg, llm_service, notification_service, nonRegVars>>

\* app.services.notification_service.get_notification_service
get_notification_service ==
    /\ phase = "running"
    /\ reg_hist["notification"].calls < MaxCalls
    /\ LET res == Getter(notification_service, NotificationService_init(cfg), next_instance) IN
         /\ notification_service' = res.service
         /\ Record("notification", res)
    /\ UNCHANGED <<cfg, phase, llm_service_pkg, llm_service, storage_service, nonRegVars>>

(***************************************************************************)
(* Storage adapters (app/services/storage).                                *)
(*                                                                         *)
(* A path is [abs, parts]; a part is a pair <<u, text>>, where u is the    *)
(* uuid a generated file name starts with (0 in a directory or a literal   *)
(* name).  A path string is the sequence of its parts with the separator   *)
(* SEP between them.                                                       *)
(***************************************************************************)
Lit(text) == <<0, text>>
SEP == Lit("/")

Rel(parts) == [abs |-> FALSE, parts |-> parts]
Abs(parts) == [abs |-> TRUE, parts |-> parts]

\* the byte strings of the model
Data == {<< >>, <<0>>, <<255, 10>>}
\* file names a caller passes
FileNames == {"a.jpg", "notes", "b.tar.gz"}
\* folders a caller passes
Folders == {"photos", "a/b", "/tmp"}

\* Path(file_name).suffix
Suffix(name) ==
    CASE name = "a.jpg" -> ".jpg"
      [] name = "notes" -> ""
      [] name = "b.tar.gz" -> ".gz"

\* Path(folder): a folder string split at its separators
PathOfFolder(folder) ==
    CASE folder = "photos" -> Rel(<<Lit("photos")>>)
      [] folder = "a/b" -> Rel(<<Lit("a"), Lit("b")>>)
      [] folder = "/tmp" -> Abs(<<Lit("tmp")>>)

\* Path(Config.LOCAL_STORAGE_PATH), "./uploads" by default
base_path == Rel(<<Lit("uploads")>>)

\* pathlib's `/`: an absolute right operand replaces the left one
Join(p, q) == IF q.abs THEN q ELSE [abs |-> p.abs, parts |-> p.parts \o q.parts]

IsPrefix(a, b) == Len(a) <= Len(b) /\ SubSeq(b, 1, Len(a)) = a

\* PurePath.relative_to: [ok, path]; not ok is the ValueError it raises
relative_to(p, base) ==
    IF p.abs = base.abs /\ IsPrefix(base.parts, p.parts)
    THEN [ok |-> TRUE, path |-> Rel(SubSeq(p.parts, Len(base.parts) + 1, Len(p.parts)))]
    ELSE [ok |-> FALSE, path |-> Rel(<< >>)]

\* str(path) of a relative path: its parts joined by the separator
RECURSIVE JoinParts(_)
JoinParts(parts) ==
    IF Len(parts) = 0 THEN << >>
    ELSE IF Len(parts) = 1 THEN parts
    ELSE <<Head(parts), SEP>> \o JoinParts(Tail(parts))

PathStr(p) == JoinParts(p.parts)

\* Path(string) of a relative path string: the parts between the separators
RECURSIVE SplitParts(_)
SplitParts(str) ==
    IF Len(str) = 0 THEN << >>
    ELSE IF Head(str) = SEP THEN SplitParts(Tail(str))
    ELSE <<Head(str)>> \o SplitParts(Tail(str))

PathOfStr(str) == Rel(SplitParts(str))

\* a file name that ignores the uuid: the upload keeps the caller's suffix only
UniqueName_fixed(uuid, file_name) == <<0, Suffix(file_name)>>

\* f"{uuid.uuid4()}{file_ext}"
UniqueName(uuid, file_name) == <<uuid, Suffix(file_name)>>

\* the adapters whose source marks every operation "Demo mode": they store nothing
StubAdapters == {"S3Adapter", "R2Adapter", "GoogleDriveAdapter"}

Returned(v) == [ok |-> TRUE, value |-> v, error |-> "none"]
Failed(e) == [ok |-> FALSE, value |-> << >>, error |-> e]

\* LocalAdapter.upload: the filesystem after the call and the call's result
LocalAdapter_upload(files, uuid, file_data, file_name, folder) ==
    LET folder_path == Join(base_path, PathOfFolder(folder))
        file_path == [folder_path EXCEPT !.parts = @ \o <<UniqueName(uuid, file_name)>>]
        written == [q \in DOMAIN files \cup {file_path} |->
                        IF q = file_path THEN file_data ELSE files[q]]
        rel == relative_to(file_path, base_path)
    IN  [fs |-> written,
         result |-> IF rel.ok THEN Returned(PathStr(rel.path)) ELSE Failed("ValueError")]

\* LocalAdapter.download
LocalAdapter_download(files, file_path) ==
    LET full_path == Join(base_path, PathOfStr(file_path)) IN
    IF full_path \in DOMAIN files THEN Returned(files[full_path])
    ELSE Failed("FileNotFoundError")

\* LocalAdapter.delete: the filesystem after the call and the boolean returned
LocalAdapter_delete(files, file_path) ==
    LET full_path == Join(base_path, PathOfStr(file_path)) IN
    IF full_path \in DOMAIN files
    THEN [fs |-> [q \in DOMAIN files \ {full_path} |-> files[q]], result |-> TRUE]
    ELSE [fs |-> files, result |-> FALSE]

\* S3Adapter.upload (demo mode): a URL is made up, nothing is stored
S3Adapter_upload(uuid, file_name, folder) ==
    Returned(<<Lit("https://daycare-photos.s3.amazonaws.com"), SEP, Lit(folder), SEP,
               <<uuid, file_name>>>>)
\* R2Adapter.upload (demo mode)
R2Adapter_upload(uuid, file_name, folder) ==
    Returned(<<<<uuid, "https://pub-.r2.dev">>, SEP, Lit(folder), SEP, Lit(file_name)>>)
\* GoogleDriveAdapter.upload (demo mode)
GoogleDriveAdapter_upload(uuid, file_name, folder) ==
    Returned(<<Lit("https://drive.google.com/file/d"), SEP, <<uuid, "">>, SEP, Lit("view")>>)

\* S3Adapter.download, R2Adapter.download, GoogleDriveAdapter.download: b""
Stub_download(file_path) == Returned(<< >>)

\* StorageService.upload: self.adapter.upload(file_data, file_name, folder)
StorageService_upload(svc, files, uuid, file_data, file_name, folder) ==
    CASE svc.adapter = "LocalAdapter" ->
            LocalAdapter_upload(files, uuid, file_data, file_name, folder)
      [] svc.adapter = "S3Adapter" ->
            [fs |-> files, result |-> S3Adapter_upload(uuid, file_name, folder)]
      [] svc.adapter = "R2Adapter" ->
            [fs |-> files, result |-> R2Adapter_upload(uuid, file_name, folder)]
      [] svc.adapter = "GoogleDriveAdapter" ->
            [fs |-> files, result |-> GoogleDriveAdapter_upload(uuid, file_name, folder)]

\* StorageService.download: self.adapter.download(file_path)
StorageService_download(svc, files, file_path) ==
    IF svc.adapter = "LocalAdapter" THEN LocalAdapter_download(files, file_path)
    ELSE Stub_download(file_path)

\* StorageService.delete: self.adapter.delete(file_path)
StorageService_delete(svc, files, file_path) ==
    IF svc.adapter = "LocalAdapter" THEN LocalAdapter_delete(files, file_path)
    ELSE [fs |-> files, result |-> TRUE]

NoIO == [op |-> "none", arg |-> << >>, ok |-> TRUE, value |-> << >>]

\* a caller uploads bytes under a name into a folder
Upload ==
    /\ storage_service # NoService
    /\ uuid_next <= MaxUploads
    /\ \E file_data \in Data, file_name \in FileNames, folder \in Folders :
         LET up == StorageService_upload(storage_service, fs, uuid_next,
                                         file_data, file_name, folder) IN
           /\ fs' = up.fs
           /\ uploads' = IF up.result.ok
                         THEN uploads \cup {[url |-> up.result.value, data |-> file_data]}
                         ELSE uploads
           /\ last_io' = [op |-> "upload", arg |-> << >>, ok |-> up.result.ok,
                          value |-> up.result.value]
    /\ uuid_next' = uuid_next + 1
    /\ UNCHANGED <<nonStoVars, deleted>>

\* a caller downloads a path an upload returned
Download ==
    /\ storage_service # NoService
    /\ \E u \in uploads :
         LET r == StorageService_download(storage_service, fs, u.url) IN
           last_io' = [op |-> "download", arg |-> u.url, ok |-> r.ok, value |-> r.value]
    /\ UNCHANGED <<nonStoVars, fs, uuid_next, uploads, deleted>>

\* a caller deletes a path an upload returned
Delete ==
    /\ storage_service # NoService
    /\ \E u \in uploads :
         LET d == StorageService_delete(storage_service, fs, u.url) IN
           /\ fs' = d.fs
           /\ deleted' = deleted \cup {u.url}
           /\ last_io' = [op |-> "delete", arg |-> u.url, ok |-> d.result, value |-> << >>]
    /\ UNCHANGED <<nonStoVars, uuid_next, uploads>>

(***************************************************************************)
(* Users and authentication (app/utils/auth.py, app/database/models.py).   *)
(***************************************************************************)
\* the member names of enum UserRole, and the value of each
UserRoleNames == {"PARENT", "STAFF", "ADMIN"}
UserRoleValue(name) ==
    CASE name = "PARENT" -> "parent"
      [] name = "STAFF" -> "staff"
      [] name = "ADMIN" -> "admin"

\* the inputs of the model
Emails == {"ann@x.org", "Ann@x.org"}
\* passwords are sequences of bytes: two short ones, and two of 73 bytes that
\* differ in the last byte only
Pw_test123 == <<"t", "e", "s", "t", "1", "2", "3">>
Pw_test456 == <<"t", "e", "s", "t", "4", "5", "6">>
Pw_long_x == [i \in 1 .. 72 |-> "a"] \o <<"x">>
Pw_long_y == [i \in 1 .. 72 |-> "a"] \o <<"y">>
Passwords == {Pw_test123, Pw_test456, Pw_long_x, Pw_long_y}
LastNames == {"One", "Two"}
RoleInputs == {"parent", "Staff", "nurse"}
Salts == {1, 2}

\* str.upper() on the role inputs of the model
Upper(role) ==
    CASE role = "parent" -> "PARENT"
      [] role = "Staff" -> "STAFF"
      [] role = "nurse" -> "NURSE"

\* the builds of the unpinned bcrypt package differ on a password longer than
\* its input limit: older ones ignore the bytes past the limit, newer ones
\* raise ValueError
BcryptBuilds == {"truncate", "raise"}
BcryptMaxBytes == 72

\* bcrypt.hashpw / bcrypt.checkpw raise ValueError on this password
BcryptRejects(build, password) == build = "raise" /\ Len(password) > BcryptMaxBytes

\* the bytes of the password bcrypt hashes
BcryptInput(password) ==
    IF Len(password) > BcryptMaxBytes THEN SubSeq(password, 1, BcryptMaxBytes) ELSE password

\* bcrypt.hashpw(password, salt): the salt, and a digest of the salt and the
\* bytes hashed
hash_password(password, salt) == [salt |-> salt, digest |-> <<salt, BcryptInput(password)>>]

\* a check that accepts every password
verify_password_any(password, hashed) == TRUE

\* bcrypt.checkpw: hashes the password with the salt kept in the hash and compares
verify_password(password, hashed) == hash_password(password, hashed.salt) = hashed

\* a lookup that never finds the email
EmailRegistered_never(rows, email) == FALSE

\* db.query(User).filter(User.email == email).first() is not None
EmailRegistered(rows, email) == \E u \in rows : u.email = email

\* register_user: the users table after the call, and the pair returned
\* (user = 0 is None); raised is the exception that left the function instead
register_user(rows, id, salt, email, password, first_name, last_name, role, daycare_id) ==
    IF EmailRegistered(rows, email)
    THEN [users |-> rows, user |-> 0, error |-> "Email already registered", raised |-> "none"]
    ELSE IF BcryptRejects(bcrypt_build, password)
    THEN [users |-> rows, user |-> 0, error |-> "none", raised |-> "ValueError"]
    ELSE IF Upper(role) \notin UserRoleNames
    THEN [users |-> rows, user |-> 0, error |-> "none", raised |-> "KeyError"]
    ELSE [users |-> rows \cup
                    {[id |-> id, email |-> email,
                      password_hash |-> hash_password(password, salt),
                      first_name |-> first_name, last_name |-> last_name,
                      role |-> UserRoleValue(Upper(role)),
                      daycare_id |-> daycare_id, is_active |-> TRUE]},
          user |-> id, error |-> "none", raised |-> "none"]

\* authenticate_user: the id of the user returned, 0 for None; raised is the
\* exception that left the function instead
authenticate_user(rows, email, password) ==
    LET found == {u \in rows : u.email = email /\ u.is_active} IN
    IF found = {} THEN [user |-> 0, raised |-> "none"]
    ELSE LET user == CHOOSE u \in found : \A v \in found : u.id <= v.id IN
         IF BcryptRejects(bcrypt_build, password) THEN [user |-> 0, raised |-> "ValueError"]
         ELSE IF verify_password(password, user.password_hash)
         THEN [user |-> user.id, raised |-> "none"]
         ELSE [user |-> 0, raised |-> "none"]

NoAuth == [op |-> "none", email |-> "", password |-> << >>, user |-> 0,
           error |-> "none", raised |-> "none", existed |-> FALSE, before |-> {}]

\* a caller registers a user
RegisterUser ==
    /\ next_id.users <= MaxUsers
    /\ \E email \in Emails, password \in Passwords, last_name \in LastNames,
       role \in RoleInputs, daycare_id \in {"A"}, salt \in Salts :
        LET r == register_user(users, next_id.users, salt, email, password,
                               "Test", last_name, role, daycare_id) IN
          /\ users' = r.users
          /\ next_id' = IF r.user # 0 THEN [next_id EXCEPT !.users = @ + 1] ELSE next_id
          /\ registered' = IF r.user # 0
                           THEN registered \cup
                                  {[id |-> r.user, email |-> email, password |-> password,
                                    last_name |-> last_name,
                                    password_hash |-> hash_password(password, salt)]}
                           ELSE registered
          /\ auth_result' = [op |-> "register", email |-> email, password |-> password,
                             user |-> r.user, error |-> r.error, raised |-> r.raised,
                             existed |-> (\E u \in users : u.email = email),
                             before |-> users]
    /\ UNCHANGED <<nonDbVars, children, parent_children, photos, activities, pageVars, bcrypt_build>>

\* a caller authenticates
AuthenticateUser ==
    \E email \in Emails, password \in Passwords :
        auth_result' = [op |-> "authenticate", email |-> email, password |-> password,
                        user |-> authenticate_user(users, email, password).user,
                        error |-> "none",
                        raised |-> authenticate_user(users, email, password).raised,
                        existed |-> (\E u \in users : u.email = email),
                        before |-> users]
    /\ UNCHANGED <<nonDbVars, dbVars, registered, pageVars, bcrypt_build>>

(***************************************************************************)
(* The tenant data and the pages that write and read it                    *)
(* (app/database/models.py, pages/).                                       *)
(***************************************************************************)
\* the users a daycare starts with: an admin or staff member and a parent each
TenantUsers ==
    { [id |-> 1, email |-> "admin@a.org", password_hash |-> hash_password(Pw_test123, 1),
       first_name |-> "Test", last_name |-> "One", role |-> "admin",
       daycare_id |-> "A", is_active |-> TRUE],
      [id |-> 2, email |-> "staff@b.org", password_hash |-> hash_password(Pw_test123, 2),
       first_name |-> "Test", last_name |-> "One", role |-> "staff",
       daycare_id |-> "B", is_active |-> TRUE],
      [id |-> 3, email |-> "parent@a.org", password_hash |-> hash_password(Pw_test123, 1),
       first_name |-> "Test", last_name |-> "One", role |-> "parent",
       daycare_id |-> "A", is_active |-> TRUE],
      [id |-> 4, email |-> "parent@b.org", password_hash |-> hash_password(Pw_test123, 2),
       first_name |-> "Test", last_name |-> "One", role |-> "parent",
       daycare_id |-> "B", is_active |-> TRUE] }

\* the members of enum PhotoStatus the pages write
PENDING == "pending"
APPROVED == "approved"

\* a row as a page reports it: its table, primary key and tenant
Row(table, r) == [table |-> table, id |-> r.id, daycare_id |-> r.daycare_id]
Rows(table, rs) == {Row(table, r) : r \in rs}

\* no page has been rendered since the last write
NoView == [page |-> "none", user |-> 0, daycare_id |-> "none", rows |-> {},
           photos |-> {}, activities_today |-> 0]

\* the n primary keys generate_uuid() yields from k on, one per selected child
AssignIds(selected, k) ==
    CHOOSE f \in [selected -> k .. (k + Cardinality(selected) - 1)] :
        \A c, d \in selected : c.id < d.id => f[c] < f[d]

\* the children, photos and activities created so far
RowsCreated == (next_id.children - 1) + (next_id.photos - 1) + (next_id.activities - 1)

\* ---- Enroll Child page: the parents offered for selection
Enroll_parents(user) ==
    {p \in users : p.daycare_id = user.daycare_id /\ p.role = "parent" /\ p.is_active}

\* Enroll Child page: the child is created with parent_id and, when a parent
\* is selected, with a row of the association table (parent = 0: none selected)
EnrollChild ==
    /\ RowsCreated < MaxRows
    /\ \E user \in users :
         /\ user.role \in {"staff", "admin"}
         /\ \E parent \in {p.id : p \in Enroll_parents(user)} \cup {0} :
              /\ children' = children \cup
                    {[id |-> next_id.children, daycare_id |-> user.daycare_id,
                      parent_id |-> parent, is_active |-> TRUE]}
              /\ parent_children' = IF parent # 0
                                    THEN parent_children \cup {<<parent, next_id.children>>}
                                    ELSE parent_children
    /\ next_id' = [next_id EXCEPT !.children = @ + 1]
    /\ shown' = NoView
    /\ UNCHANGED <<nonDbVars, users, photos, activities, authVars, session, request>>

\* ---- Admin Panel, Children tab: the parents offered for selection
Admin_parents(user) ==
    {p \in users : p.daycare_id = user.daycare_id /\ p.role = "parent"}

\* Admin Panel, Add Child: the child is created with parent_id only
AdminAddChild ==
    /\ RowsCreated < MaxRows
    /\ \E user \in users :
         /\ user.role = "admin"
         /\ \E parent \in Admin_parents(user) :
              children' = children \cup
                    {[id |-> next_id.children, daycare_id |-> user.daycare_id,
                      parent_id |-> parent.id, is_active |-> TRUE]}
    /\ next_id' = [next_id EXCEPT !.children = @ + 1]
    /\ shown' = NoView
    /\ UNCHANGED <<nonDbVars, users, parent_children, photos, activities, authVars, session, request>>

\* ---- Staff Dashboard: the children offered in the upload and activity forms
Staff_children(user) == {c \in children : c.daycare_id = user.daycare_id}

\* Staff Dashboard, Upload Photos tab: one file, one Photo per selected child
StaffUploadPhoto ==
    \E user \in users :
      /\ user.role \in {"staff", "admin"}
      /\ \E selected_children \in SUBSET Staff_children(user), auto_approve \in BOOLEAN :
           /\ selected_children # {}
           /\ RowsCreated + Cardinality(selected_children) <= MaxRows
           /\ LET id == AssignIds(selected_children, next_id.photos) IN
                photos' = photos \cup
                    {[id |-> id[c], child_id |-> c.id, daycare_id |-> user.daycare_id,
                      status |-> IF auto_approve THEN APPROVED ELSE PENDING,
                      is_deleted |-> FALSE] : c \in selected_children}
           /\ next_id' = [next_id EXCEPT !.photos = @ + Cardinality(selected_children)]
      /\ shown' = NoView
      /\ UNCHANGED <<nonDbVars, users, children, parent_children, activities, authVars, session, request>>

\* Staff Dashboard, Approve Photos tab: the pending photos listed
pending_photos(user) ==
    {p \in photos : p.daycare_id = user.daycare_id /\ p.status = PENDING}

\* the Approve button of a listed photo
ApprovePhoto ==
    \E user \in users :
      /\ user.role \in {"staff", "admin"}
      /\ \E photo \in pending_photos(user) :
           photos' = (photos \ {photo}) \cup {[photo EXCEPT !.status = APPROVED]}
      /\ shown' = NoView
      /\ UNCHANGED <<nonDbVars, users, children, parent_children, activities, next_id,
                     authVars, session, request>>

\* the Reject button of a listed photo: the row is deleted
RejectPhoto ==
    \E user \in users :
      /\ user.role \in {"staff", "admin"}
      /\ \E photo \in pending_photos(user) : photos' = photos \ {photo}
      /\ shown' = NoView
      /\ UNCHANGED <<nonDbVars, users, children, parent_children, activities, next_id,
                     authVars, session, request>>

\* Staff Dashboard, Log Activity tab: one Activity per selected child, at the
\* date of the form (today: the date is not before today's midnight)
LogActivity ==
    \E user \in users :
      /\ user.role \in {"staff", "admin"}
      /\ \E selected_children \in SUBSET Staff_children(user), today \in BOOLEAN :
           /\ selected_children # {}
           /\ RowsCreated + Cardinality(selected_children) <= MaxRows
           /\ LET id == AssignIds(selected_children, next_id.activities) IN
                activities' = activities \cup
                    {[id |-> id[c], child_id |-> c.id, daycare_id |-> user.daycare_id,
                      today |-> today] : c \in selected_children}
           /\ next_id' = [next_id EXCEPT !.activities = @ + Cardinality(selected_children)]
      /\ shown' = NoView
      /\ UNCHANGED <<nonDbVars, users, children, parent_children, photos, authVars, session, request>>

\* the rows a limit(n) keeps of a query ordered by uploaded_at descending:
\* the n uploaded last
Limit(rs, n) ==
    IF Cardinality(rs) <= n THEN rs
    ELSE CHOOSE s \in SUBSET rs :
            /\ Cardinality(s) = n
            /\ \A r \in s, q \in rs \ s : q.id < r.id

GalleryLimit == 50
GridLimit == 12

\* ---- Staff Dashboard: the "Activities logged today" query, db.query(Activity)
\* filtered on Photo.daycare_id: the pairs of the join of activities and photos
Stats_activities_today(user) ==
    {ap \in activities \X photos : ap[2].daycare_id = user.daycare_id /\ ap[1].today}

\* Staff Dashboard: the activities listed under "Today's Activities"
today_activities(user) ==
    {a \in activities : a.daycare_id = user.daycare_id /\ a.today}

\* Staff Dashboard: the photos counted as uploaded today (every photo of the
\* model is uploaded on the day the model covers)
Stats_photos_today(user) == {p \in photos : p.daycare_id = user.daycare_id}

\* a staff member or admin opens the Staff Dashboard: every list and count
\* query of the page runs
ViewStaffDashboard ==
    \E user \in users :
      /\ user.role \in {"staff", "admin"}
      /\ shown' = [page |-> "staff_dashboard", user |-> user.id,
                   daycare_id |-> user.daycare_id,
                   rows |-> Rows("Child", Staff_children(user))
                            \cup Rows("Photo", pending_photos(user))
                            \cup Rows("Activity", today_activities(user))
                            \cup Rows("Photo", Stats_photos_today(user))
                            \cup Rows("Activity", {ap[1] : ap \in Stats_activities_today(user)}),
                   photos |-> {},
                   activities_today |-> Cardinality(Stats_activities_today(user))]
      /\ UNCHANGED <<nonDbVars, dbVars, authVars, session, request>>

\* ---- Admin Panel, Users tab: the users listed
Admin_users(user) == {u \in users : u.daycare_id = user.daycare_id}

\* Admin Panel, Children tab: the children listed
Admin_children(user) == {c \in children : c.daycare_id = user.daycare_id}

\* an admin opens the Admin Panel
ViewAdminPanel ==
    \E user \in users :
      /\ user.role = "admin"
      /\ shown' = [page |-> "admin_panel", user |-> user.id,
                   daycare_id |-> user.daycare_id,
                   rows |-> Rows("User", Admin_users(user))
                            \cup Rows("Child", Admin_children(user)),
                   photos |-> {}, activities_today |-> 0]
      /\ UNCHANGED <<nonDbVars, dbVars, authVars, session, request>>

\* ---- PhotoProcessor.get_processing_stats(daycare_id): the rows it counts
get_processing_stats(daycare_id) ==
    Rows("Photo", {p \in photos : p.daycare_id = daycare_id})
    \cup Rows("Activity", {a \in activities : a.daycare_id = daycare_id})

\* FaceRecognitionService.identify_child(image, daycare_id): the children matched against
identify_child_candidates(daycare_id) ==
    {c \in children : c.daycare_id = daycare_id /\ c.is_active}

\* a staff member or admin runs the photo services for their daycare
ViewProcessing ==
    \E user \in users :
      /\ user.role \in {"staff", "admin"}
      /\ shown' = [page |-> "upload_photos", user |-> user.id,
                   daycare_id |-> user.daycare_id,
                   rows |-> get_processing_stats(user.daycare_id)
                            \cup Rows("Child", identify_child_candidates(user.daycare_id)),
                   photos |-> {}, activities_today |-> 0]
      /\ UNCHANGED <<nonDbVars, dbVars, authVars, session, request>>

\* ---- Parent Portal: the parent's children, through the association table
Portal_children(user) ==
    {c \in children : <<user.id, c.id>> \in parent_children /\ c.is_active}

\* Parent Portal, Photo Gallery: the photos of the selected children
Portal_gallery(selected_child_ids) ==
    Limit({p \in photos : p.status = APPROVED /\ p.child_id \in selected_child_ids},
          GalleryLimit)

\* a parent opens the Parent Portal and selects one child or "All Children"
ViewParentPortal ==
    \E user \in users :
      /\ user.role = "parent"
      /\ Portal_children(user) # {}
      /\ \E selected_child_ids \in
              {{c.id : c \in Portal_children(user)}} \cup {{c.id} : c \in Portal_children(user)} :
           shown' = [page |-> "parent_portal", user |-> user.id,
                     daycare_id |-> user.daycare_id,
                     rows |-> Rows("Child", Portal_children(user)),
                     photos |-> Portal_gallery(selected_child_ids),
                     activities_today |-> 0]
      /\ UNCHANGED <<nonDbVars, dbVars, authVars, session, request>>

\* ---- AI Chat, display_photo_grid: the children whose photos are shown
Chat_children(user) ==
    IF user.role = "parent"
    THEN {c \in children : c.parent_id = user.id}
    ELSE {c \in children : c.daycare_id = user.daycare_id}

\* AI Chat, display_photo_grid: the photos shown
display_photo_grid(user) ==
    LET child_ids == {c.id : c \in Chat_children(user)} IN
    IF child_ids = {} THEN {}
    ELSE Limit({p \in photos : p.child_id \in child_ids /\ ~p.is_deleted}, GridLimit)

\* a user asks the AI Chat about photos and the photo grid is displayed
ViewAIChat ==
    \E user \in users :
      /\ user.role \in {"parent", "staff", "admin"}
      /\ shown' = [page |-> "ai_chat", user |-> user.id,
                   daycare_id |-> user.daycare_id,
                   rows |-> {},
                   photos |-> display_photo_grid(user),
                   activities_today |-> 0]
      /\ UNCHANGED <<nonDbVars, dbVars, authVars, session, request>>

(***************************************************************************)
(* A page request: the script of a protected page runs top to bottom       *)
(* (app/utils/auth.py require_auth, pages/).                               *)
(***************************************************************************)
\* the protected pages
ProtectedPages == {"parent_portal", "staff_dashboard", "admin_panel", "ai_chat",
                   "voice_call", "google_drive", "enroll_child", "upload_photos"}

\* the allowed_roles each page passes to require_auth
allowed_roles(page) ==
    CASE page = "parent_portal" -> {"parent"}
      [] page = "staff_dashboard" -> {"staff", "admin"}
      [] page = "admin_panel" -> {"admin"}
      [] page = "ai_chat" -> {"parent", "staff", "admin"}
      [] page = "voice_call" -> {"parent", "staff", "admin"}
      [] page = "google_drive" -> {"staff", "admin"}
      [] page = "enroll_child" -> {"staff", "admin"}
      [] page = "upload_photos" -> {"staff", "admin"}

\* st.session_state without the keys of a login
NoSession == [has_user_id |-> FALSE, user_id |-> 0, role |-> "none", daycare_id |-> "none"]

NoRequest == [page |-> "none", step |-> "idle", session |-> NoSession,
              queried |-> FALSE, rendered |-> FALSE]

\* the emails typed into the login form
LoginEmails == {"admin@a.org", "staff@b.org", "parent@a.org", "nobody@x.org"}

\* Login page: the form is submitted; on success the session keys are set
Login ==
    /\ request.step \in {"idle", "done", "stopped"}
    /\ \E email \in LoginEmails, password \in Passwords :
         LET found == {u \in users : u.email = email /\ u.is_active} IN
         IF found # {} /\ ~BcryptRejects(bcrypt_build, password)
            /\ verify_password(password,
                   (CHOOSE u \in found : \A v \in found : u.id <= v.id).password_hash)
         THEN LET user == CHOOSE u \in found : \A v \in found : u.id <= v.id IN
              session' = [has_user_id |-> TRUE, user_id |-> user.id, role |-> user.role,
                          daycare_id |-> user.daycare_id]
         ELSE session' = session
    /\ UNCHANGED <<nonDbVars, dbVars, authVars, shown, request>>

\* logout(): every key of the session is deleted
Logout ==
    /\ request.step \in {"idle", "done", "stopped"}
    /\ session' = NoSession
    /\ UNCHANGED <<nonDbVars, dbVars, authVars, shown, request>>

\* the browser opens a protected page: its script starts at require_auth
OpenPage ==
    /\ request.step \in {"idle", "done", "stopped"}
    /\ \E page \in ProtectedPages :
         request' = [page |-> page, step |-> "require_auth", session |-> NoSession,
                     queried |-> FALSE, rendered |-> FALSE]
    /\ UNCHANGED <<nonDbVars, dbVars, authVars, shown, session>>

\* a role check that lets every role pass
RoleAllowed_any(role, allowed) == TRUE

\* require_auth: st.session_state.get('role') in allowed_roles
RoleAllowed(role, allowed) == role \in allowed

\* require_auth(allowed_roles): st.stop() ends the script unless the session
\* holds a user whose role is allowed
RequireAuth ==
    /\ request.step = "require_auth"
    /\ request' = [request EXCEPT
                     !.session = session,
                     !.step = IF ~session.has_user_id THEN "stopped"
                              ELSE IF allowed_roles(request.page) # {}
                                      /\ ~RoleAllowed(session.role, allowed_roles(request.page))
                              THEN "stopped"
                              ELSE "query"]
    /\ UNCHANGED <<nonDbVars, dbVars, authVars, shown, session>>

\* the page's first get_db() block: tenant rows are read
QueryPage ==
    /\ request.step = "query"
    /\ request' = [request EXCEPT !.step = "render", !.queried = TRUE]
    /\ UNCHANGED <<nonDbVars, dbVars, authVars, shown, session>>

\* the page renders what it read
RenderPage ==
    /\ request.step = "render"
    /\ request' = [request EXCEPT !.step = "done", !.rendered = TRUE]
    /\ UNCHANGED <<nonDbVars, dbVars, authVars, shown, session>>


\* Admin Panel, Delete User button, pressed in the admin's own browser
\* session: the listed user of the admin's daycare, not the admin, is deleted
\* with the rows that link the user to children
DeleteUser ==
    /\ \E user \in users :
         /\ user.role = "admin"
         /\ \E usr \in Admin_users(user) :
              /\ usr.id # user.id
              /\ users' = users \ {usr}
              /\ parent_children' = {link \in parent_children : link[1] # usr.id}
    /\ shown' = NoView
    /\ UNCHANGED <<nonDbVars, children, photos, activities, next_id, authVars, session, request>>
(***************************************************************************)
(* The keyword classifier (app/services/photo_analysis.py).                *)
(* A text is the sequence of its characters.                               *)
(***************************************************************************)
\* ACTIVITY_PATTERNS in the order of the dict: category, then its keywords
ACTIVITY_PATTERNS ==
    <<
      [category |-> "meal", keywords |->
         <<<<"e", "a", "t", "i", "n", "g">>,
           <<"l", "u", "n", "c", "h">>,
           <<"s", "n", "a", "c", "k">>,
           <<"f", "o", "o", "d">>,
           <<"d", "i", "n", "i", "n", "g">>,
           <<"b", "r", "e", "a", "k", "f", "a", "s", "t">>,
           <<"d", "i", "n", "n", "e", "r">>>>],
      [category |-> "nap", keywords |->
         <<<<"s", "l", "e", "e", "p", "i", "n", "g">>,
           <<"n", "a", "p">>,
           <<"r", "e", "s", "t">>,
           <<"b", "e", "d">>,
           <<"t", "i", "r", "e", "d">>>>],
      [category |-> "play", keywords |->
         <<<<"p", "l", "a", "y", "i", "n", "g">>,
           <<"t", "o", "y", "s">>,
           <<"b", "l", "o", "c", "k", "s">>,
           <<"p", "l", "a", "y", "g", "r", "o", "u", "n", "d">>,
           <<"f", "u", "n">>,
           <<"g", "a", "m", "e">>>>],
      [category |-> "learning", keywords |->
         <<<<"r", "e", "a", "d", "i", "n", "g">>,
           <<"b", "o", "o", "k">>,
           <<"l", "e", "a", "r", "n", "i", "n", "g">>,
           <<"c", "l", "a", "s", "s", "r", "o", "o", "m">>,
           <<"l", "e", "s", "s", "o", "n">>,
           <<"a", "b", "c">>>>],
      [category |-> "outdoor", keywords |->
         <<<<"o", "u", "t", "s", "i", "d", "e">>,
           <<"p", "l", "a", "y", "g", "r", "o", "u", "n", "d">>,
           <<"p", "a", "r", "k">>,
           <<"g", "a", "r", "d", "e", "n">>,
           <<"n", "a", "t", "u", "r", "e">>>>],
      [category |-> "art", keywords |->
         <<<<"p", "a", "i", "n", "t", "i", "n", "g">>,
           <<"d", "r", "a", "w", "i", "n", "g">>,
           <<"c", "r", "a", "f", "t">>,
           <<"a", "r", "t">>,
           <<"c", "r", "e", "a", "t", "i", "v", "e">>,
           <<"c", "o", "l", "o", "r", "i", "n", "g">>>>]
    >>

\* the pieces the texts of the model are made of
Fragments ==
    {<<"l", "u", "n", "c", "h">>,
     <<"N", "a", "p">>,
     <<"p", "l", "a", "y", "g", "r", "o", "u", "n", "d">>,
     <<"p", "a", "r", "k">>,
     <<"A", "R", "T">>,
     <<"z", "q">>,
     <<" ">>,
     <<"b", "o", "o", "k">>,
     <<"f", "o", "r", "e", "s", "t">>}

\* str.lower() on one character
LowerChar(c) ==
    CASE c = "A" -> "a"
      [] c = "B" -> "b"
      [] c = "C" -> "c"
      [] c = "D" -> "d"
      [] c = "E" -> "e"
      [] c = "F" -> "f"
      [] c = "G" -> "g"
      [] c = "H" -> "h"
      [] c = "I" -> "i"
      [] c = "J" -> "j"
      [] c = "K" -> "k"
      [] c = "L" -> "l"
      [] c = "M" -> "m"
      [] c = "N" -> "n"
      [] c = "O" -> "o"
      [] c = "P" -> "p"
      [] c = "Q" -> "q"
      [] c = "R" -> "r"
      [] c = "S" -> "s"
      [] c = "T" -> "t"
      [] c = "U" -> "u"
      [] c = "V" -> "v"
      [] c = "W" -> "w"
      [] c = "X" -> "x"
      [] c = "Y" -> "y"
      [] c = "Z" -> "z"
      [] OTHER -> c

\* str.lower()
lower(text) == [i \in 1 .. Len(text) |-> LowerChar(text[i])]

\* keyword in text: the keyword occurs as a substring
Contains(keyword, text) ==
    \E i \in 0 .. (Len(text) - Len(keyword)) :
        \A j \in 1 .. Len(keyword) : text[i + j] = keyword[j]

\* a fallback outside the categories
DefaultActivity_other == "other"

\* the category returned when no keyword matches
DefaultActivity == "play"

\* a scan that returns the last matching category of the table
_detect_activity_from_text_last(text) ==
    LET text_lower == lower(text)
        hits == {k \in 1 .. Len(ACTIVITY_PATTERNS) :
                   \E n \in 1 .. Len(ACTIVITY_PATTERNS[k].keywords) :
                       Contains(ACTIVITY_PATTERNS[k].keywords[n], text_lower)}
    IN IF hits = {} THEN DefaultActivity
       ELSE ACTIVITY_PATTERNS[CHOOSE k \in hits : \A m \in hits : k >= m].category

\* _detect_activity_from_text: the first category of ACTIVITY_PATTERNS one of
\* whose keywords occurs in the lowered text, else the default
_detect_activity_from_text(text) ==
    LET text_lower == lower(text)
        hits == {k \in 1 .. Len(ACTIVITY_PATTERNS) :
                   \E n \in 1 .. Len(ACTIVITY_PATTERNS[k].keywords) :
                       Contains(ACTIVITY_PATTERNS[k].keywords[n], text_lower)}
    IN IF hits = {} THEN DefaultActivity
       ELSE ACTIVITY_PATTERNS[CHOOSE k \in hits : \A m \in hits : k <= m].category

\* the caller's text grows by one fragment
TypeText ==
    /\ \E fragment \in Fragments :
         /\ Len(caption) + Len(fragment) <= MaxTextLen
         /\ caption' = caption \o fragment
    /\ category' = "none"
    /\ again' = "none"
    /\ UNCHANGED nonClsVars

\* _detect_activity_from_text is called on the text
DetectActivity ==
    /\ category = "none"
    /\ category' = _detect_activity_from_text(caption)
    /\ UNCHANGED <<nonClsVars, caption, again>>

\* it is called once more on the same text
DetectAgain ==
    /\ category # "none"
    /\ again = "none"
    /\ again' = _detect_activity_from_text(caption)
    /\ UNCHANGED <<nonClsVars, caption, category>>

\* MOOD_DETECTION in the order of the dict: mood, then its keywords
MOOD_DETECTION ==
    <<
      [mood |-> "happy", keywords |->
         <<<<"s", "m", "i", "l", "i", "n", "g">>,
           <<"l", "a", "u", "g", "h", "i", "n", "g">>,
           <<"j", "o", "y", "f", "u", "l">>,
           <<"e", "x", "c", "i", "t", "e", "d">>>>],
      [mood |-> "calm", keywords |->
         <<<<"p", "e", "a", "c", "e", "f", "u", "l">>,
           <<"r", "e", "l", "a", "x", "e", "d">>,
           <<"q", "u", "i", "e", "t">>,
           <<"c", "o", "n", "t", "e", "n", "t">>>>],
      [mood |-> "focused", keywords |->
         <<<<"c", "o", "n", "c", "e", "n", "t", "r", "a", "t", "i", "n", "g">>,
           <<"a", "t", "t", "e", "n", "t", "i", "v", "e">>,
           <<"e", "n", "g", "a", "g", "e", "d">>>>],
      [mood |-> "tired", keywords |->
         <<<<"s", "l", "e", "e", "p", "y">>,
           <<"y", "a", "w", "n", "i", "n", "g">>,
           <<"d", "r", "o", "w", "s", "y">>>>]
    >>

\* _detect_mood_from_text: the values a call may return.  The first mood of
\* MOOD_DETECTION one of whose keywords occurs in the lowered text, capitalized
\* behind the emoji (written as its code point); else whatever random.choice draws from the default moods
_detect_mood_from_text(text) ==
    LET text_lower == lower(text)
        hits == {k \in 1 .. Len(MOOD_DETECTION) :
                   \E n \in 1 .. Len(MOOD_DETECTION[k].keywords) :
                       Contains(MOOD_DETECTION[k].keywords[n], text_lower)}
        capitalize(mood) == CASE mood = "happy" -> "Happy" [] mood = "calm" -> "Calm"
                              [] mood = "focused" -> "Focused" [] mood = "tired" -> "Tired"
    IN IF hits = {}
       THEN {<<"U+1F60A", "Happy">>, <<"U+1F642", "Good">>, <<"U+1F929", "Excited">>, <<"U+1F60C", "Calm">>}
       ELSE {<<"U+1F60A", capitalize(MOOD_DETECTION[CHOOSE k \in hits : \A m \in hits : k <= m].mood)>>}

\* _detect_mood_from_text is called on the caption
DetectMood ==
    /\ category = "none"
    /\ category' \in _detect_mood_from_text(caption)
    /\ UNCHANGED <<nonClsVars, caption, again>>

\* it is called once more on the same caption
DetectMoodAgain ==
    /\ category # "none"
    /\ again = "none"
    /\ again' \in _detect_mood_from_text(caption)
    /\ UNCHANGED <<nonClsVars, caption, category>>

(***************************************************************************)
(* LLMService.analyze_photo_activity and generate_activity_description     *)
(* (app/services/llm_service.py).  A reply of the provider is the sequence *)
(* of its lines: a code fence (three backquotes, written <fence>), one     *)
(* JSON value, other text or a blank line.                                 *)
(***************************************************************************)
ReplyLines == {"<fence>json", "<fence>", "{meal}", "{dance}", "{}", "[]", "Sure!", ""}

\* the replies of the model: at most MaxReplyLines lines
RECURSIVE Replies(_)
Replies(n) ==
    IF n = 0 THEN {<< >>}
    ELSE Replies(n - 1) \cup
         {Append(s, x) : s \in {t \in Replies(n - 1) : Len(t) = n - 1}, x \in ReplyLines}

\* what adapter.chat does: it raises, or it returns a reply
ChatOutcomes == {[raised |-> TRUE, reply |-> << >>]} \cup
                {[raised |-> FALSE, reply |-> r] : r \in Replies(MaxReplyLines)}

\* str.strip() on a reply: the blank lines at both ends go
strip(reply) ==
    LET inked == {i \in 1 .. Len(reply) : reply[i] # ""} IN
    IF inked = {} THEN << >>
    ELSE SubSeq(reply, CHOOSE i \in inked : \A j \in inked : i <= j,
                       CHOOSE i \in inked : \A j \in inked : j <= i)

\* the markdown code block is removed: lines[1:-1] if len(lines) > 2 else lines
StripFence(reply) ==
    IF reply # << >> /\ reply[1] \in {"<fence>json", "<fence>"} /\ Len(reply) > 2
    THEN SubSeq(reply, 2, Len(reply) - 1)
    ELSE reply

\* json.loads: it raises unless the text is exactly one JSON value
JsonLoads(lines) ==
    LET Value(kind, type, mood) ==
            [raised |-> FALSE, kind |-> kind, activity_type |-> type, mood |-> mood]
    IN CASE lines = <<"{meal}">> -> Value("object", "meal", "happy")
         [] lines = <<"{dance}">> -> Value("object", "dance", "excited")
         [] lines = <<"{}">> -> Value("object", "missing", "missing")
         [] lines = <<"[]">> -> Value("array", "missing", "missing")
         [] OTHER -> [raised |-> TRUE, kind |-> "none", activity_type |-> "missing",
                      mood |-> "missing"]

\* a list of types that lets any type of the reply through
valid_types_any == {"meal", "nap", "play", "learning", "outdoor", "art", "other", "dance",
                    "missing"}

\* valid_types of analyze_photo_activity
valid_types == {"meal", "nap", "play", "learning", "outdoor", "art", "other"}

\* strftime("%H:%M"): the characters of a time
Digit(d) == CASE d = 0 -> "0" [] d = 1 -> "1" [] d = 2 -> "2" [] d = 3 -> "3" [] d = 4 -> "4"
              [] d = 5 -> "5" [] d = 6 -> "6" [] d = 7 -> "7" [] d = 8 -> "8" [] d = 9 -> "9"

strftime_HM(hour, minute) ==
    <<Digit(hour \div 10), Digit(hour % 10), ":", Digit(minute \div 10), Digit(minute % 10)>>

\* int() of a string of digits
RECURSIVE int(_)
int(s) ==
    IF s = << >> THEN 0
    ELSE 10 * int(SubSeq(s, 1, Len(s) - 1)) + (CHOOSE d \in 0 .. 9 : Digit(d) = s[Len(s)])

\* the except branch: the default classification by time of day, with
\* hour = int(time_of_day.split(':')[0]) if ':' in time_of_day else 12
DefaultClassification(time_of_day) ==
    LET colons == {i \in 1 .. Len(time_of_day) : time_of_day[i] = ":"}
        hour == IF colons = {} THEN 12
                ELSE int(SubSeq(time_of_day, 1,
                                (CHOOSE i \in colons : \A j \in colons : i <= j) - 1))
        Default(type, mood) ==
            [activity_type |-> type, confidence |-> "0.5", mood |-> mood, from |-> "default"]
    IN IF time_of_day # << >> /\ 11 <= hour /\ hour <= 13 THEN Default("meal", "happy")
       ELSE IF time_of_day # << >> /\ 13 <= hour /\ hour <= 15 THEN Default("nap", "calm")
       ELSE Default("play", "happy")

\* analyze_photo_activity: what it returns for a time of day and an outcome
\* of adapter.chat
analyze_photo_activity(time_of_day, chat) ==
    IF chat.raised THEN DefaultClassification(time_of_day)
    ELSE LET result == JsonLoads(StripFence(strip(chat.reply))) IN
         IF result.raised \/ result.kind # "object"
         THEN DefaultClassification(time_of_day)
         ELSE [activity_type |-> IF result.activity_type \notin valid_types
                                 THEN "other" ELSE result.activity_type,
               confidence |-> "llm", mood |-> result.mood, from |-> "llm"]

\* generate_activity_description: the stripped reply, or the fixed sentence
\* about the child when adapter.chat raises
generate_activity_description(child_name, chat) ==
    IF chat.raised
    THEN [from |-> "except", text |-> <<child_name, " during activities at daycare">>]
    ELSE [from |-> "llm", text |-> strip(chat.reply)]

\* the times of day handed to analyze_photo_activity: none, or HH:MM
TimesOfDay == {<< >>} \cup {strftime_HM(h, m) : h \in 0 .. 23, m \in {0, 30}}

\* no call has returned yet
NoResult == [activity_type |-> "none", confidence |-> "none", mood |-> "none", from |-> "none"]

NoAnalysis == [time_of_day |-> << >>, chat |-> [raised |-> TRUE, reply |-> << >>],
               result |-> NoResult]

\* the call made with the time of day and the outcome of adapter.chat returns
AnalyzePhotoActivity ==
    /\ analysis.result = NoResult
    /\ analysis' = [analysis EXCEPT
                      !.result = analyze_photo_activity(analysis.time_of_day, analysis.chat)]
    /\ UNCHANGED <<nonSvcVars, ident, proc, notif>>

(***************************************************************************)
(* FaceRecognitionService.identify_child                                   *)
(* (app/services/face_recognition_service.py).  A face encoding is a point *)
(* on a line, in tenths of the unit of face_distance; a stored encoding    *)
(* that np.array cannot convert is the value Malformed.                    *)
(***************************************************************************)
\* self.tolerance = 0.6, in tenths
Tolerance == 6

Malformed == -1

\* face_recognition.face_distance([known], unknown)[0]
face_distance(known_encoding, face_encoding) ==
    IF known_encoding >= face_encoding THEN known_encoding - face_encoding
    ELSE face_encoding - known_encoding

\* face_recognition.compare_faces([known], unknown, tolerance)[0]
compare_faces(known_encoding, face_encoding) ==
    face_distance(known_encoding, face_encoding) <= Tolerance

NoMatch == [id |-> 0, distance |-> 0, found |-> FALSE]

\* a comparison that also replaces the best match on an equal distance
Closer_or_equal(distance, best) == ~best.found \/ distance <= best.distance

\* distance < best_match_distance, which starts at infinity
Closer(distance, best) == ~best.found \/ distance < best.distance

\* the inner loop: the stored encodings of one child, from the k-th on
RECURSIVE MatchEncodings(_, _, _, _)
MatchEncodings(child, k, face_encoding, best) ==
    IF k > Len(child.face_encodings) THEN best
    ELSE LET known == child.face_encodings[k] IN
         MatchEncodings(child, k + 1, face_encoding,
            IF known = Malformed THEN best
            ELSE IF compare_faces(known, face_encoding)
                    /\ Closer(face_distance(known, face_encoding), best)
            THEN [id |-> child.id, distance |-> face_distance(known, face_encoding),
                  found |-> TRUE]
            ELSE best)

\* the outer loop: the rows of the query, from the n-th on
RECURSIVE MatchChildren(_, _, _, _)
MatchChildren(rows, n, face_encoding, best) ==
    IF n > Len(rows) THEN best
    ELSE MatchChildren(rows, n + 1, face_encoding,
            IF Len(rows[n].face_encodings) = 0 THEN best
            ELSE MatchEncodings(rows[n], 1, face_encoding, best))

\* the orders in which a query without order_by may return a set of rows
RowOrders(rs) ==
    {order \in [1 .. Cardinality(rs) -> rs] : \A r \in rs : \E n \in DOMAIN order : order[n] = r}

\* the children the query of identify_child selects
identify_child_rows(rows, daycare_id) ==
    {c \in rows : c.daycare_id = daycare_id /\ c.is_active}

\* identify_child: the id of the best match, 0 for None, for the rows in the
\* order the query returned them
identify_child(order, face_encoding) == MatchChildren(order, 1, face_encoding, NoMatch).id

\* the children tables of the model: children 1 .. n with any tenant, any
\* is_active flag and any list of stored encodings
RECURSIVE FaceTables(_)
FaceTables(n) ==
    IF n = 0 THEN {{}}
    ELSE {t \cup {[id |-> n, daycare_id |-> d, parent_id |-> 0, is_active |-> a,
                   face_encodings |-> e]} :
            t \in FaceTables(n - 1), d \in {"A", "B"}, a \in BOOLEAN,
            e \in {<< >>, <<4>>, <<10>>, <<4, 10>>, <<Malformed, 10>>}}

\* no call has been made
NoIdent == [face_encoding |-> 0, daycare_id |-> "none", order |-> << >>, result |-> 0,
            returned |-> FALSE]

\* the call made with the encoding and the daycare returns, the query having
\* yielded its rows in some order
IdentifyChild ==
    /\ ~ident.returned
    /\ \E order \in RowOrders(identify_child_rows(children, ident.daycare_id)) :
         ident' = [ident EXCEPT !.order = order, !.returned = TRUE,
                                !.result = identify_child(order, ident.face_encoding)]
    /\ UNCHANGED <<nonSvcVars, analysis, proc, notif>>

(***************************************************************************)
(* PhotoProcessor (app/services/photo_processor.py) on the photos the      *)
(* Staff Dashboard uploads, and the face service calls on existing rows.   *)
(* A photo row carries the columns the processor reads and writes; an      *)
(* image is the sequence of the encodings of the faces in it.              *)
(***************************************************************************)
\* the result dictionary process_uploaded_photo starts from
NoProc == [op |-> "none", photo_id |-> 0, llm_failed |-> FALSE, success |-> FALSE,
           error |-> "None", faces_detected |-> 0, children_identified |-> << >>,
           activity_created |-> FALSE]

\* the tables a processed daycare starts with: its admin, a child whose face
\* is trained and a child whose face is not
ProcChildren ==
    { [id |-> 1, daycare_id |-> "A", parent_id |-> 3, is_active |-> TRUE,
       first_name |-> "Emma", face_encodings |-> <<4>>, training_photo_count |-> 1],
      [id |-> 2, daycare_id |-> "A", parent_id |-> 3, is_active |-> TRUE,
       first_name |-> "Liam", face_encodings |-> << >>, training_photo_count |-> 0] }

\* the photos and activities created and the training images stored so far
WorkDone ==
    LET Trained[cs \in SUBSET children] ==
            IF cs = {} THEN 0
            ELSE LET c == CHOOSE c \in cs : TRUE IN
                 Len(c.face_encodings) + Trained[cs \ {c}]
    IN (next_id.photos - 1) + (next_id.activities - 1) + (Trained[children] - 1)

\* Staff Dashboard, Upload Photos tab, with every column the form sets: the
\* Photo rows one upload by a user may create, one per selected child,
\* captured now, approved_by set on auto-approval
UploadedPhotos(user, id) ==
    {[id |-> id, child_id |-> c.id, daycare_id |-> user.daycare_id,
      status |-> IF auto_approve THEN APPROVED ELSE PENDING,
      is_deleted |-> FALSE,
      file_name |-> <<"a", ".", "j", "p", "g">>, caption |-> text,
      captured_at |-> [hour |-> 9, minute |-> 30],
      approved_by |-> IF auto_approve THEN user.id ELSE 0,
      approved_at |-> "None",
      detected_faces |-> 0, face_recognition_complete |-> FALSE,
      auto_tagged |-> FALSE,
      ai_generated_description |-> [from |-> "none", text |-> << >>],
      activity_id |-> 0,
      photo_metadata |-> [ai_analysis |-> "none", children_count |-> 0]] :
     c \in Staff_children(user), auto_approve \in BOOLEAN,
     text \in {<<"l", "u", "n", "c", "h", " ", "t", "i", "m", "e">>, <<"z", "q">>}}

\* the loop over the faces of the image: the ids identified, each once
RECURSIVE identified_child_ids(_, _, _)
identified_child_ids(face_encodings, order, ids) ==
    IF face_encodings = << >> THEN ids
    ELSE LET child_id == identify_child(order, Head(face_encodings)) IN
         identified_child_ids(Tail(face_encodings), order,
            IF child_id # 0 /\ \A n \in DOMAIN ids : ids[n] # child_id
            THEN Append(ids, child_id) ELSE ids)

\* a processor that also approves the photo it tags
TagPhoto_approving(photo, child_id) ==
    [photo EXCEPT !.child_id = child_id, !.auto_tagged = TRUE, !.status = APPROVED]

\* photo.child_id = primary_child_id; photo.auto_tagged = True
TagPhoto(photo, child_id) == [photo EXCEPT !.child_id = child_id, !.auto_tagged = TRUE]

\* process_uploaded_photo on a photo that exists, up to the commit, for the
\* outcomes of the two adapter.chat calls: the photo as the session holds it,
\* the Activity added to the session and the result
process_uploaded_photo(photo, image, order, chat, activity_id, uploader_id) ==
    LET located == [photo EXCEPT !.detected_faces = Len(image),
                                 !.face_recognition_complete = TRUE]
        ids == identified_child_ids(image, order, << >>)
        result == [NoProc EXCEPT !.op = "process", !.photo_id = photo.id,
                                 !.llm_failed = chat.description.raised
                                                \/ (ids # << >> /\ chat.analysis.raised),
                                 !.faces_detected = Len(image),
                                 !.children_identified = ids]
    IN IF ids # << >>
       THEN LET child == CHOOSE c \in children : c.id = ids[1]
                time_of_day == strftime_HM(photo.captured_at.hour, photo.captured_at.minute)
                analysis_result == analyze_photo_activity(time_of_day, chat.analysis)
                description == generate_activity_description(child.first_name,
                                                             chat.description)
            IN [photo |-> [TagPhoto(located, ids[1]) EXCEPT
                              !.ai_generated_description = description,
                              !.activity_id = activity_id,
                              !.photo_metadata = [ai_analysis |-> analysis_result.activity_type,
                                                  children_count |-> Len(ids)]],
                added |-> {[id |-> activity_id, child_id |-> ids[1],
                            daycare_id |-> photo.daycare_id, staff_id |-> uploader_id,
                            activity_type |-> analysis_result.activity_type,
                            notes |-> description,
                            mood |-> IF analysis_result.mood = "missing" THEN "happy"
                                     ELSE analysis_result.mood,
                            today |-> TRUE]},
                result |-> [result EXCEPT !.activity_created = TRUE]]
       ELSE LET description == generate_activity_description("the children",
                                                             chat.description)
            IN [photo |-> [located EXCEPT !.ai_generated_description = description],
                added |-> {},
                result |-> result]

\* a session whose changes stay in the table when the commit raises
rollback_not(rows, pending) == pending

\* get_db on an exception: db.rollback(), the rows stay as they were
rollback(rows, pending) == rows

\* process_uploaded_photo as a call that returns, on the tables [photos,
\* activities, next] the session sees: the lookup, the processing, then the
\* commit, or the rollback get_db makes when the commit raises. io holds what
\* the environment decides: the order of the rows of the children query per
\* daycare, the outcomes of the adapter.chat calls, the fate of the commit
process_photo_call(tables, photo_id, image, io, uploader_id) ==
    IF \A p \in tables.photos : p.id # photo_id
    THEN [tables |-> tables,
          result |-> [NoProc EXCEPT !.op = "process", !.photo_id = photo_id,
                                    !.error = "Photo not found"]]
    ELSE LET photo == CHOOSE p \in tables.photos : p.id = photo_id
             done == process_uploaded_photo(photo, image, io.order[photo.daycare_id],
                                            io.chat, tables.next, uploader_id)
             pending == [photos |-> (tables.photos \ {photo}) \cup {done.photo},
                         activities |-> tables.activities \cup done.added,
                         next |-> tables.next + Cardinality(done.added)]
         IN IF io.commit_raises
            THEN [tables |-> [photos |-> rollback(tables.photos, pending.photos),
                              activities |-> rollback(tables.activities, pending.activities),
                              next |-> tables.next],
                  result |-> [done.result EXCEPT !.error = "commit"]]
            ELSE [tables |-> pending, result |-> [done.result EXCEPT !.success = TRUE]]

\* what the environment may decide for one call
ProcessIO ==
    {[order |-> [d \in {"A", "B"} |-> IF d = "A" THEN oa ELSE ob], chat |-> chat,
      commit_raises |-> commit_raises] :
       oa \in RowOrders(identify_child_rows(children, "A")),
       ob \in RowOrders(identify_child_rows(children, "B")),
       chat \in {[analysis |-> [raised |-> TRUE, reply |-> << >>],
                  description |-> [raised |-> TRUE, reply |-> << >>]],
                 [analysis |-> [raised |-> FALSE, reply |-> <<"{meal}">>],
                  description |-> [raised |-> FALSE, reply |-> <<"Sure!">>]]},
       commit_raises \in BOOLEAN}

\* a call of process_uploaded_photo, as page Upload Photos and process_batch
\* make it: for an id, an image, a provider that raises on both calls or
\* replies to both, and a commit that goes through or raises (get_db then
\* rolls the session back)
ProcessUploadedPhoto ==
    /\ WorkDone < MaxRows
    /\ \E photo_id \in {p.id : p \in photos} \cup {next_id.photos}, image \in {<< >>, <<4>>, <<17>>},
          io \in ProcessIO, uploader \in {u \in users : u.role \in {"staff", "admin"}} :
         /\ \A p \in photos : p.id = photo_id => p.daycare_id = uploader.daycare_id
         /\ LET call == process_photo_call([photos |-> photos, activities |-> activities,
                                            next |-> next_id.activities],
                                           photo_id, image, io, uploader.id)
            IN /\ photos' = call.tables.photos
               /\ activities' = call.tables.activities
               /\ next_id' = [next_id EXCEPT !.activities = call.tables.next]
               /\ proc' = call.result
    /\ UNCHANGED <<nonProcVars, users, children, parent_children>>

\* reprocess_photo: it looks the photo up and returns an error
ReprocessPhoto ==
    /\ \E photo_id \in {p.id : p \in photos} \cup {next_id.photos} :
         proc' = [NoProc EXCEPT !.op = "reprocess", !.photo_id = photo_id,
                    !.error = IF \A p \in photos : p.id # photo_id THEN "Photo not found"
                              ELSE "Reprocessing requires image data from storage"]
    /\ UNCHANGED <<nonProcVars, dbVars>>

\* auto_tag_photo: it looks the photo up and returns no child
AutoTagPhoto ==
    /\ \E photo_id \in {p.id : p \in photos} \cup {next_id.photos} :
         proc' = [NoProc EXCEPT !.op = "auto_tag", !.photo_id = photo_id]
    /\ UNCHANGED <<nonProcVars, dbVars>>

\* encode_face: the encoding of the first face of the image, none for an
\* image without a face
encode_face(image) == IF image = << >> THEN << >> ELSE <<image[1]>>

\* a loop body that does not count the images without a face
Encoded_uncounted(found, image) ==
    [found EXCEPT !.all_encodings = @ \o encode_face(image)]

\* the body of the first loop of train_child: the encoding is appended, or
\* failed_images is incremented
Encoded(found, image) ==
    IF encode_face(image) # << >>
    THEN [found EXCEPT !.all_encodings = @ \o encode_face(image)]
    ELSE [found EXCEPT !.failed_images = @ + 1]

\* the first loop of train_child over the images left
RECURSIVE EncodeAll(_, _)
EncodeAll(training_images, found) ==
    IF training_images = << >> THEN found
    ELSE EncodeAll(Tail(training_images), Encoded(found, Head(training_images)))

\* the result dictionary train_child starts from
NoTraining == [success |-> FALSE, encodings_added |-> 0, total_encodings |-> 0,
               failed_images |-> 0, error |-> "None"]

\* train_child: the children table after the call and the result returned
train_child(rows, child_id, training_images) ==
    LET found == EncodeAll(training_images, [all_encodings |-> << >>, failed_images |-> 0])
        result == [NoTraining EXCEPT !.failed_images = found.failed_images]
    IN IF found.all_encodings = << >>
       THEN [children |-> rows,
             result |-> [result EXCEPT !.error = "No faces detected in training images"]]
       ELSE IF \A c \in rows : c.id # child_id
       THEN [children |-> rows, result |-> [result EXCEPT !.error = "Child not found"]]
       ELSE LET child == CHOOSE c \in rows : c.id = child_id
                face_encodings == child.face_encodings \o found.all_encodings
            IN [children |-> (rows \ {child}) \cup
                               {[child EXCEPT !.face_encodings = face_encodings,
                                              !.training_photo_count = Len(face_encodings)]},
                result |-> [result EXCEPT !.success = TRUE,
                                          !.encodings_added = Len(found.all_encodings),
                                          !.total_encodings = Len(face_encodings)]]

\* train_child with one training image
TrainChild ==
    /\ \E child_id \in {c.id : c \in children} \cup {0}, image \in {<< >>, <<10>>} :
         LET call == train_child(children, child_id, <<image>>) IN
         /\ call.result.success => WorkDone < MaxRows
         /\ children' = call.children
         /\ proc' = [NoProc EXCEPT !.op = "train", !.success = call.result.success,
                                   !.error = call.result.error,
                                   !.faces_detected = Len(image)]
    /\ UNCHANGED <<nonProcVars, users, parent_children, photos, activities, next_id>>

\* the summary process_batch starts from
NoSummary == [total |-> 0, successful |-> 0, failed |-> 0, faces_detected |-> 0,
              children_identified |-> {}, results |-> << >>]

\* a loop body that adds up the faces of every result
Tally_every(summary, photo_id, result) ==
    [summary EXCEPT !.results = Append(@, [photo_id |-> photo_id, result |-> result]),
                    !.successful = IF result.success THEN @ + 1 ELSE @,
                    !.failed = IF result.success THEN @ ELSE @ + 1,
                    !.faces_detected = @ + result.faces_detected,
                    !.children_identified =
                        IF result.success
                        THEN @ \cup {result.children_identified[n] :
                                       n \in DOMAIN result.children_identified}
                        ELSE @]

\* the loop body of process_batch after the call returned: the entry of
\* results and the counters
Tally(summary, photo_id, result) ==
    [summary EXCEPT !.results = Append(@, [photo_id |-> photo_id, result |-> result]),
                    !.successful = IF result.success THEN @ + 1 ELSE @,
                    !.failed = IF result.success THEN @ ELSE @ + 1,
                    !.faces_detected = IF result.success THEN @ + result.faces_detected ELSE @,
                    !.children_identified =
                        IF result.success
                        THEN @ \cup {result.children_identified[n] :
                                       n \in DOMAIN result.children_identified}
                        ELSE @]

\* the loop of process_batch over the photo ids left, the calls deciding as
\* ios says; image data is [size, faces], and image_data_map.get yields None
\* for an id that is not a key: None and b"" both count as no image data
RECURSIVE process_batch(_, _, _, _, _)
process_batch(photo_ids, image_data_map, ios, uploader_id, acc) ==
    IF photo_ids = << >> THEN acc
    ELSE LET photo_id == Head(photo_ids) IN
         IF photo_id \notin DOMAIN image_data_map \/ image_data_map[photo_id].size = 0
         THEN process_batch(Tail(photo_ids), image_data_map, Tail(ios), uploader_id,
                            [acc EXCEPT !.summary.failed = @ + 1])
         ELSE LET call == process_photo_call(acc.tables, photo_id,
                                             image_data_map[photo_id].faces, Head(ios),
                                             uploader_id)
              IN process_batch(Tail(photo_ids), image_data_map, Tail(ios), uploader_id,
                               [tables |-> call.tables,
                                summary |-> Tally(acc.summary, photo_id, call.result)])

\* a call of process_batch by a staff member or admin with a list of ids of
\* photos that exist or not, possibly repeated, and a map that holds image
\* data for some of them; the provider and the order of the children query
\* stay as they are during the call, each commit goes through or raises;
\* list(set) yields the children in some order
ProcessBatch ==
    /\ proc = NoProc
    /\ \E ids \in SUBSET ({p.id : p \in photos} \cup {next_id.photos}),
          uploader \in {u \in users : u.role \in {"staff", "admin"} /\ u.daycare_id = "A"} :
       \E n \in 0 .. MaxBatch :
       \E photo_ids \in [1 .. n -> {p.id : p \in photos} \cup {next_id.photos}],
          image_data_map \in [ids -> {[size |-> 0, faces |-> << >>],
                                      [size |-> 1, faces |-> << >>],
                                      [size |-> 1, faces |-> <<4, 10>>]}],
          io \in {i \in ProcessIO : ~i.commit_raises}, commits \in [1 .. n -> BOOLEAN] :
         \E done \in {process_batch(photo_ids, image_data_map,
                         [k \in 1 .. n |-> [io EXCEPT !.commit_raises = commits[k]]],
                         uploader.id,
                         [tables |-> [photos |-> photos, activities |-> activities,
                                      next |-> next_id.activities],
                          summary |-> [NoSummary EXCEPT !.total = Len(photo_ids)]])} :
           /\ photos' = done.tables.photos
           /\ activities' = done.tables.activities
           /\ next_id' = [next_id EXCEPT !.activities = done.tables.next]
           /\ \E listed \in RowOrders(done.summary.children_identified) :
                proc' = [op |-> "batch", photo_ids |-> photo_ids,
                         image_data_map |-> image_data_map,
                         summary |-> [done.summary EXCEPT
                                         !.children_identified = listed]]
    /\ UNCHANGED <<nonProcVars, users, children, parent_children>>

(***************************************************************************)
(* Enrollment and face training on the children table                      *)
(* (pages/08 Enroll Child, FaceRecognitionService.train_child and          *)
(* register_child_face).                                                   *)
(***************************************************************************)
\* the Enroll Child form accepts this many training photos
MinTrainingPhotos == 3
MaxTrainingPhotos == 10

\* the lists of up to MaxImages training images, each with a face or without
TrainingImages == UNION {[1 .. n -> {<< >>, <<10>>}] : n \in 0 .. MaxImages}

\* the children created and the encodings stored in a children table
RECURSIVE TrainingStored(_)
TrainingStored(rows) ==
    IF rows = {} THEN 0
    ELSE LET c == CHOOSE c \in rows : TRUE IN
         1 + Len(c.face_encodings) + TrainingStored(rows \ {c})

\* Enroll Child page, the form submitted by a staff member or admin: after
\* validation the child is created without encodings and linked to the
\* selected parent, then train_child runs on the training photos
EnrollAndTrain ==
    /\ \E user \in {u \in users : u.role \in {"staff", "admin"}},
          training_photos \in TrainingImages :
       \E parent \in {p.id : p \in Enroll_parents(user)} \cup {0} :
         IF Len(training_photos) < MinTrainingPhotos \/ Len(training_photos) > MaxTrainingPhotos
         THEN /\ proc' = [op |-> "enroll_rejected", child_id |-> 0,
                          training_images |-> training_photos, before |-> children,
                          result |-> NoTraining]
              /\ UNCHANGED <<children, parent_children, next_id>>
         ELSE LET new_child == [id |-> next_id.children, daycare_id |-> user.daycare_id,
                                parent_id |-> parent, is_active |-> TRUE,
                                first_name |-> "Emma", face_encodings |-> << >>,
                                training_photo_count |-> 0]
                  call == train_child(children \cup {new_child}, new_child.id, training_photos)
              IN /\ next_id.children <= MaxFaceChildren
                 /\ TrainingStored(call.children) <= MaxRows
                 /\ children' = call.children
                 /\ parent_children' = IF parent # 0
                                       THEN parent_children \cup {<<parent, new_child.id>>}
                                       ELSE parent_children
                 /\ next_id' = [next_id EXCEPT !.children = @ + 1]
                 /\ proc' = [op |-> "enroll", child_id |-> new_child.id,
                             training_images |-> training_photos,
                             before |-> children \cup {new_child}, result |-> call.result]
    /\ UNCHANGED <<nonProcVars, users, photos, activities>>

\* a call of train_child for a child that exists or not
TrainChildImages ==
    /\ \E child_id \in {c.id : c \in children} \cup {next_id.children},
          training_images \in TrainingImages :
         LET call == train_child(children, child_id, training_images) IN
         /\ TrainingStored(call.children) <= MaxRows
         /\ children' = call.children
         /\ proc' = [op |-> "train_child", child_id |-> child_id,
                     training_images |-> training_images, before |-> children,
                     result |-> call.result]
    /\ UNCHANGED <<nonProcVars, users, parent_children, photos, activities, next_id>>

\* register_child_face: train_child on the one image, its success returned
RegisterChildFace ==
    /\ \E child_id \in {c.id : c \in children} \cup {next_id.children},
          image_data \in {<< >>, <<10>>} :
         LET call == train_child(children, child_id, <<image_data>>) IN
         /\ TrainingStored(call.children) <= MaxRows
         /\ children' = call.children
         /\ proc' = [op |-> "register_child_face", child_id |-> child_id,
                     training_images |-> <<image_data>>, before |-> children,
                     result |-> [NoTraining EXCEPT !.success = call.result.success]]
    /\ UNCHANGED <<nonProcVars, users, parent_children, photos, activities, next_id>>
(***************************************************************************)
(* NotificationService (app/services/notification_service.py).  A dispatch *)
(* attempt is one SMTP session or one Twilio API request; its outcome is   *)
(* "ok" or "raises".                                                       *)
(***************************************************************************)
\* a sender that tries once more when the attempt raised
Dispatch_retry(channel, outcome) ==
    IF outcome = "raises" THEN <<channel, channel>> ELSE <<channel>>

\* the attempts the body of one try statement makes
Dispatch(channel, outcome) == <<channel>>

\* send_enrollment_email: (True, message), or (False, message) from the handler
send_enrollment_email(outcome) ==
    [channel |-> "email", attempts |-> Dispatch("email", outcome), outcome |-> outcome,
     returned |-> IF outcome = "ok" THEN <<TRUE, "Email sent successfully">>
                  ELSE <<FALSE, "Email error">>]

\* send_enrollment_sms: nothing is attempted without a Twilio client
send_enrollment_sms(twilio_client, outcome) ==
    IF ~twilio_client
    THEN [channel |-> "sms", attempts |-> << >>, outcome |-> "none",
          returned |-> <<FALSE, "Twilio not configured">>]
    ELSE [channel |-> "sms", attempts |-> Dispatch("sms", outcome), outcome |-> outcome,
          returned |-> IF outcome = "ok" THEN <<TRUE, "SMS sent">>
                       ELSE <<FALSE, "SMS error">>]

\* make_enrollment_call: nothing is attempted without a Twilio client
make_enrollment_call(twilio_client, outcome) ==
    IF ~twilio_client
    THEN [channel |-> "call", attempts |-> << >>, outcome |-> "none",
          returned |-> <<FALSE, "Twilio not configured">>]
    ELSE [channel |-> "call", attempts |-> Dispatch("call", outcome), outcome |-> outcome,
          returned |-> IF outcome = "ok" THEN <<TRUE, "Call initiated">>
                       ELSE <<FALSE, "Call error">>]

\* send_complete_enrollment_notification: the email, then the SMS and the
\* call when a phone number is given
send_complete_enrollment_notification(twilio_client, parent_phone, outcome) ==
    <<send_enrollment_email(outcome.email)>> \o
    (IF parent_phone
     THEN <<send_enrollment_sms(twilio_client, outcome.sms),
            make_enrollment_call(twilio_client, outcome.call)>>
     ELSE << >>)

\* a caller makes call op of the four; the attempts of the call are added
\* to the attempts made so far
Send(op) ==
    /\ notif.calls < MaxSends
    /\ \E parent_phone \in BOOLEAN,
          outcome \in [email : {"ok", "raises"}, sms : {"ok", "raises"},
                       call : {"ok", "raises"}] :
         LET results ==
               CASE op = "send_enrollment_email" -> <<send_enrollment_email(outcome.email)>>
                 [] op = "send_enrollment_sms" ->
                       <<send_enrollment_sms(notif.twilio_client, outcome.sms)>>
                 [] op = "make_enrollment_call" ->
                       <<make_enrollment_call(notif.twilio_client, outcome.call)>>
                 [] OTHER -> send_complete_enrollment_notification(notif.twilio_client,
                                                                   parent_phone, outcome)
             Made(channel) ==
               LET of_channel == {n \in DOMAIN results : results[n].channel = channel} IN
               IF of_channel = {} THEN 0
               ELSE Len(results[CHOOSE n \in of_channel : TRUE].attempts)
         IN notif' = [notif EXCEPT
                        !.calls = @ + 1,
                        !.attempts = [c \in DOMAIN @ |-> @[c] + Made(c)],
                        !.last = [op |-> op, results |-> results]]
    /\ UNCHANGED <<nonSvcVars, analysis, ident, proc>>


(***************************************************************************)
(* GoogleDriveSyncService (app/services/gdrive_sync.py): the monitoring    *)
(* loop in its thread and stop_monitoring called from another thread. Time *)
(* is the number of sleeps the loop has made, counted up to MaxTicks.      *)
(***************************************************************************)
\* __init__: last_sync_time = utcnow(), is_running = False; no call made
NoMonitor == [pc |-> "idle", is_running |-> FALSE, last_sync_time |-> 0, now |-> 0,
              stop_called |-> FALSE, cycle |-> "none"]

\* how the try block of one cycle may end: get_new_files raises, finds
\* nothing, or finds files that process_new_files handles, handles with one
\* file's exception caught in its own loop, or fails on before its loop
CycleOutcomes ==
    {"listing raised", "no new files", "files processed", "file raised", "processing raised"}

\* the outcomes in which an exception was raised during the cycle
CycleRaised == {"listing raised", "file raised", "processing raised"}

\* self.last_sync_time after the try block: the assignment is its last
\* statement, reached unless an exception left get_new_files or
\* process_new_files
SyncTimeAfter(outcome, last_sync_time, now) ==
    IF outcome \in {"listing raised", "processing raised"} THEN last_sync_time ELSE now

\* a thread is given start_monitoring to run
StartMonitoring ==
    /\ monitor.pc = "idle"
    /\ monitor' = [monitor EXCEPT !.pc = "called"]
    /\ UNCHANGED <<nonThreadVars, dbVars, inflight>>

\* self.is_running = True
SetRunning ==
    /\ monitor.pc = "called"
    /\ monitor' = [monitor EXCEPT !.is_running = TRUE, !.pc = "while"]
    /\ UNCHANGED <<nonThreadVars, dbVars, inflight>>

\* while self.is_running
LoopTest ==
    /\ monitor.pc = "while"
    /\ monitor' = [monitor EXCEPT !.pc = IF monitor.is_running THEN "try" ELSE "returned"]
    /\ UNCHANGED <<nonThreadVars, dbVars, inflight>>

\* the try block of one cycle with its except clause
Poll ==
    /\ monitor.pc = "try"
    /\ \E outcome \in CycleOutcomes :
         monitor' = [monitor EXCEPT
                       !.cycle = outcome,
                       !.last_sync_time = SyncTimeAfter(outcome, @, monitor.now),
                       !.pc = "sleep"]
    /\ UNCHANGED <<nonThreadVars, dbVars, inflight>>

\* time.sleep(poll_interval) returns
Sleep ==
    /\ monitor.pc = "sleep"
    /\ monitor' = [monitor EXCEPT !.now = IF @ < MaxTicks THEN @ + 1 ELSE @,
                                  !.pc = "while"]
    /\ UNCHANGED <<nonThreadVars, dbVars, inflight>>

\* the steps of the monitoring thread
MonitorThread == SetRunning \/ LoopTest \/ Poll \/ Sleep

\* stop_monitoring, called from another thread once start_monitoring has
\* been called
StopMonitoring ==
    /\ monitor.pc # "idle"
    /\ monitor' = [monitor EXCEPT !.is_running = FALSE, !.stop_called = TRUE]
    /\ UNCHANGED <<nonThreadVars, dbVars, inflight>>

(***************************************************************************)
(* Two service calls running at the same time, each inside its own         *)
(* `with get_db()` session: a call reads the table with its query and      *)
(* writes at its commit, and the other call may run in between.            *)
(***************************************************************************)
Callers == {1, 2}

\* a caller that has made no call
NoCall == [op |-> "none", pc |-> "idle", args |-> << >>, pending |-> << >>,
           result |-> << >>]

NoCalls == [c \in Callers |-> NoCall]

\* ---- register_user, run by two callers at once
\* register_user up to db.add(user): the query for the email on the table as
\* it is now, the password hashed, the role looked up, the row added to the
\* caller's session
RegisterQuery(c) ==
    /\ inflight[c].pc = "idle"
    /\ \E email \in Emails, role \in {"parent", "Staff"}, salt \in Salts :
         LET call == register_user(users, 0, salt, email, Pw_test123, "Test", "One", role, "A")
         IN inflight' = [inflight EXCEPT ![c] =
               IF call.user = 0 /\ (call.error # "none" \/ call.raised # "none")
               THEN [op |-> "register_user", pc |-> "returned", args |-> <<email>>,
                     pending |-> << >>,
                     result |-> [user |-> 0, error |-> call.error, raised |-> call.raised]]
               ELSE [op |-> "register_user", pc |-> "added", args |-> <<email>>,
                     pending |-> CHOOSE u \in call.users : u \notin users,
                     result |-> << >>]]
    /\ UNCHANGED <<nonThreadVars, dbVars, monitor>>

\* db.commit() of register_user: the INSERT, which the unique index on
\* users.email rejects when a row with the email has been committed; get_db
\* then rolls back and the exception leaves register_user
RegisterCommit(c) ==
    /\ inflight[c].pc = "added"
    /\ IF EmailRegistered(users, inflight[c].pending.email)
       THEN /\ inflight' = [inflight EXCEPT ![c].pc = "returned",
                               ![c].result = [user |-> 0, error |-> "none",
                                              raised |-> "IntegrityError"]]
            /\ UNCHANGED <<users, next_id>>
       ELSE /\ users' = users \cup {[inflight[c].pending EXCEPT !.id = next_id.users]}
            /\ next_id' = [next_id EXCEPT !.users = @ + 1]
            /\ inflight' = [inflight EXCEPT ![c].pc = "returned",
                               ![c].result = [user |-> next_id.users, error |-> "none",
                                              raised |-> "none"]]
    /\ UNCHANGED <<nonThreadVars, children, parent_children, photos, activities, monitor>>

\* ---- train_child, run by two callers at once
\* train_child up to the assignments: the images encoded, the child read in
\* the caller's session and the two columns assigned from what was read
TrainQuery(c) ==
    /\ inflight[c].pc = "idle"
    /\ \E child_id \in {r.id : r \in children}, training_images \in TrainingImages :
         LET call == train_child(children, child_id, training_images)
         IN inflight' = [inflight EXCEPT ![c] =
               [op |-> "train_child", pc |-> IF call.result.success THEN "assigned"
                                             ELSE "returned",
                args |-> <<child_id>>,
                pending |-> CHOOSE r \in call.children : r.id = child_id,
                result |-> call.result]]
    /\ UNCHANGED <<nonThreadVars, dbVars, monitor>>

\* db.commit() of train_child: the UPDATE of the two columns of the row
TrainCommit(c) ==
    /\ inflight[c].pc = "assigned"
    /\ children' = {IF r.id = inflight[c].pending.id
                    THEN [r EXCEPT !.face_encodings = inflight[c].pending.face_encodings,
                                   !.training_photo_count =
                                       inflight[c].pending.training_photo_count]
                    ELSE r : r \in children}
    /\ inflight' = [inflight EXCEPT ![c].pc = "returned"]
    /\ UNCHANGED <<nonThreadVars, users, parent_children, photos, activities, next_id, monitor>>
(***************************************************************************)
(* Idle values of each subsystem's variables.                              *)
(***************************************************************************)
IdleRegistry ==
    /\ cfg = [LLM_PROVIDER |-> "openai", STORAGE_TYPE |-> "local", ENV |-> "development",
              OPENAI_API_KEY |-> TRUE, GEMINI_API_KEY |-> TRUE, DATABASE_URL |-> TRUE]
    /\ phase = "running"
    /\ llm_service_pkg = NoService
    /\ llm_service = NoService
    /\ storage_service = NoService
    /\ notification_service = NoService
    /\ next_instance = 1
    /\ reg_hist = [g \in Getters |-> NoHist]
    /\ last_call = [getter |-> "none", outcome |-> "none"]

IdleStorage ==
    /\ fs = << >>
    /\ uuid_next = 1
    /\ uploads = {}
    /\ deleted = {}
    /\ last_io = NoIO


IdleDB ==
    /\ users = {}
    /\ children = {}
    /\ parent_children = {}
    /\ photos = {}
    /\ activities = {}
    /\ next_id = [users |-> 1, children |-> 1, photos |-> 1, activities |-> 1]

IdleAuth ==
    /\ auth_result = NoAuth
    /\ registered = {}
    /\ bcrypt_build = "truncate"

IdlePage ==
    /\ shown = NoView
    /\ session = NoSession
    /\ request = NoRequest

IdleClassifier ==
    /\ caption = << >>
    /\ category = "none"
    /\ again = "none"

NoNotif(twilio_client) ==
    [twilio_client |-> twilio_client, calls |-> 0,
     attempts |-> [email |-> 0, sms |-> 0, call |-> 0],
     last |-> [op |-> "none", results |-> << >>]]

IdleServices ==
    /\ analysis = NoAnalysis
    /\ ident = NoIdent
    /\ proc = NoProc
    /\ notif = NoNotif(FALSE)

IdleThreads ==
    /\ monitor = NoMonitor
    /\ inflight = NoCalls
(***************************************************************************)
(* Specifications.                                                         *)
(***************************************************************************)
\* a fresh process: any environment, nothing imported, no service built
InitRegistry ==
    /\ IdleServices /\ IdleThreads
    /\ cfg \in ConfigValues
    /\ phase = "importing"
    /\ llm_service_pkg = NoService
    /\ llm_service = NoService
    /\ storage_service = NoService
    /\ notification_service = NoService
    /\ next_instance = 1
    /\ reg_hist = [g \in Getters |-> NoHist]
    /\ last_call = [getter |-> "none", outcome |-> "none"]
    /\ IdleStorage /\ IdleDB /\ IdleAuth /\ IdlePage /\ IdleClassifier

NextRegistry ==
    \/ ImportConfig
    \/ get_llm_service_pkg
    \/ get_llm_service
    \/ get_storage_service
    \/ get_notification_service

SpecRegistry == InitRegistry /\ [][NextRegistry]_vars

\* a running process whose storage service has been built from STORAGE_TYPE
InitStorage ==
    /\ IdleServices /\ IdleThreads
    /\ cfg \in {c \in ConfigValues :
                  /\ c.LLM_PROVIDER = "openai" /\ c.ENV = "development"
                  /\ c.OPENAI_API_KEY /\ c.GEMINI_API_KEY /\ c.DATABASE_URL
                  /\ c.STORAGE_TYPE \in {"local", "s3", "r2", "google_drive"}}
    /\ phase = "running"
    /\ llm_service_pkg = NoService
    /\ llm_service = NoService
    /\ storage_service = [id |-> 1, adapter |-> StorageService_init(cfg).adapter]
    /\ notification_service = NoService
    /\ next_instance = 2
    /\ reg_hist = [g \in Getters |-> NoHist]
    /\ last_call = [getter |-> "none", outcome |-> "none"]
    /\ IdleStorage /\ IdleDB /\ IdleAuth /\ IdlePage /\ IdleClassifier

NextStorage == Upload \/ Download \/ Delete

SpecStorage == InitStorage /\ [][NextStorage]_vars

\* two daycares with their users, no child enrolled yet
InitTenant ==
    /\ IdleServices /\ IdleThreads
    /\ IdleRegistry /\ IdleStorage /\ IdleAuth /\ IdlePage /\ IdleClassifier
    /\ users = TenantUsers
    /\ children = {}
    /\ parent_children = {}
    /\ photos = {}
    /\ activities = {}
    /\ next_id = [users |-> 5, children |-> 1, photos |-> 1, activities |-> 1]

NextTenant ==
    \/ EnrollChild
    \/ AdminAddChild
    \/ StaffUploadPhoto
    \/ ApprovePhoto
    \/ RejectPhoto
    \/ LogActivity
    \/ ViewStaffDashboard
    \/ ViewAdminPanel
    \/ ViewProcessing
    \/ ViewParentPortal
    \/ ViewAIChat

SpecTenant == InitTenant /\ [][NextTenant]_vars

\* the users of two daycares, nobody logged in, no page open
InitPage ==
    /\ IdleServices /\ IdleThreads
    /\ IdleRegistry /\ IdleStorage /\ IdleAuth /\ IdleClassifier
    /\ users = TenantUsers
    /\ children = {}
    /\ parent_children = {}
    /\ photos = {}
    /\ activities = {}
    /\ next_id = [users |-> 5, children |-> 1, photos |-> 1, activities |-> 1]
    /\ shown = NoView
    /\ session = NoSession
    /\ request = NoRequest

NextPage ==
    \/ Login
    \/ Logout
    \/ OpenPage
    \/ RequireAuth
    \/ QueryPage
    \/ RenderPage

SpecPage == InitPage /\ [][NextPage]_vars

\* the same browser session while an admin manages the users
NextSession ==
    \/ Login
    \/ Logout
    \/ OpenPage
    \/ RequireAuth
    \/ QueryPage
    \/ RenderPage
    \/ DeleteUser

SpecSession == InitPage /\ [][NextSession]_vars

\* an empty users table, either bcrypt build
InitAuth ==
    /\ IdleServices /\ IdleThreads
    /\ IdleRegistry /\ IdleStorage /\ IdleDB /\ IdlePage /\ IdleClassifier
    /\ auth_result = NoAuth
    /\ registered = {}
    /\ bcrypt_build \in BcryptBuilds

NextAuth == RegisterUser \/ AuthenticateUser

SpecAuth == InitAuth /\ [][NextAuth]_vars

\* no text typed yet
InitClassifier ==
    /\ IdleServices /\ IdleThreads
    /\ IdleRegistry /\ IdleStorage /\ IdleDB /\ IdleAuth /\ IdlePage /\ IdleClassifier

NextClassifier == TypeText \/ DetectActivity \/ DetectAgain

SpecClassifier == InitClassifier /\ [][NextClassifier]_vars

\* any reply of the provider for any time of day
InitAnalysis ==
    /\ IdleThreads
    /\ IdleRegistry /\ IdleStorage /\ IdleDB /\ IdleAuth /\ IdlePage /\ IdleClassifier
    /\ \E time_of_day \in TimesOfDay, chat \in ChatOutcomes :
         analysis = [time_of_day |-> time_of_day, chat |-> chat, result |-> NoResult]
    /\ ident = NoIdent
    /\ proc = NoProc
    /\ notif = NoNotif(FALSE)

NextAnalysis == AnalyzePhotoActivity

SpecAnalysis == InitAnalysis /\ [][NextAnalysis]_vars

\* any children table of the bounded size
InitFaces ==
    /\ IdleThreads
    /\ IdleRegistry /\ IdleStorage /\ IdleAuth /\ IdlePage /\ IdleClassifier
    /\ analysis = NoAnalysis
    /\ \E face_encoding \in {0, 7, 10, 17}, daycare_id \in {"A", "B"} :
         ident = [NoIdent EXCEPT !.face_encoding = face_encoding, !.daycare_id = daycare_id]
    /\ proc = NoProc
    /\ notif = NoNotif(FALSE)
    /\ users = {}
    /\ children \in FaceTables(MaxFaceChildren)
    /\ parent_children = {}
    /\ photos = {}
    /\ activities = {}
    /\ next_id = [users |-> 1, children |-> MaxFaceChildren + 1, photos |-> 1,
                  activities |-> 1]

NextFaces == IdentifyChild

SpecFaces == InitFaces /\ [][NextFaces]_vars

\* the users of two daycares, the children of the first and one photo its
\* admin has uploaded
InitProcessing ==
    /\ IdleRegistry /\ IdleStorage /\ IdleAuth /\ IdlePage /\ IdleClassifier
    /\ IdleServices /\ IdleThreads
    /\ users = TenantUsers
    /\ children = ProcChildren
    /\ parent_children = {<<3, 1>>, <<3, 2>>}
    /\ \E user \in {u \in TenantUsers : u.role = "admin"} :
         \E photo \in UploadedPhotos(user, 1) : photos = {photo}
    /\ activities = {}
    /\ next_id = [users |-> 5, children |-> 3, photos |-> 2, activities |-> 1]

NextProcessing ==
    \/ ApprovePhoto
    \/ RejectPhoto
    \/ ProcessUploadedPhoto
    \/ ReprocessPhoto
    \/ AutoTagPhoto
    \/ TrainChild

SpecProcessing == InitProcessing /\ [][NextProcessing]_vars

\* the batch entry point, called once on the tables of the daycare, the
\* second child's face trained by then or not
InitBatch ==
    /\ IdleRegistry /\ IdleStorage /\ IdleAuth /\ IdlePage /\ IdleClassifier
    /\ IdleServices /\ IdleThreads
    /\ users = TenantUsers
    /\ children \in {ProcChildren,
                     {IF c.id = 2 THEN [c EXCEPT !.face_encodings = <<10>>,
                                                 !.training_photo_count = 1]
                      ELSE c : c \in ProcChildren}}
    /\ parent_children = {<<3, 1>>, <<3, 2>>}
    /\ \E user \in {u \in TenantUsers : u.role = "admin"} :
         \E photo \in UploadedPhotos(user, 1) : photos = {photo}
    /\ activities = {}
    /\ next_id = [users |-> 5, children |-> 3, photos |-> 2, activities |-> 1]

NextBatch ==
    \/ ProcessBatch

SpecBatch == InitBatch /\ [][NextBatch]_vars

\* a caption with or without a mood keyword
InitMood ==
    /\ IdleRegistry /\ IdleStorage /\ IdleDB /\ IdleAuth /\ IdlePage /\ IdleServices /\ IdleThreads
    /\ caption \in Fragments \cup {<<"L", "a", "u", "g", "h", "i", "n", "g">>,
                                   <<"q", "u", "i", "e", "t">>,
                                   <<"y", "a", "w", "n", "i", "n", "g">>}
    /\ category = "none"
    /\ again = "none"

NextMood ==
    \/ DetectMood
    \/ DetectMoodAgain

SpecMood == InitMood /\ [][NextMood]_vars

\* a notification service constructed with or without a Twilio client
InitNotify ==
    /\ IdleThreads
    /\ IdleRegistry /\ IdleStorage /\ IdleDB /\ IdleAuth /\ IdlePage /\ IdleClassifier
    /\ analysis = NoAnalysis
    /\ ident = NoIdent
    /\ proc = NoProc
    /\ \E twilio_client \in BOOLEAN : notif = NoNotif(twilio_client)

NextNotify ==
    \/ Send("send_enrollment_email")
    \/ Send("send_enrollment_sms")
    \/ Send("make_enrollment_call")
    \/ Send("send_complete_enrollment_notification")

SpecNotify == InitNotify /\ [][NextNotify]_vars

\* a service object just constructed; a started thread keeps being scheduled
\* and a sleep returns
InitMonitor ==
    /\ IdleRegistry /\ IdleStorage /\ IdleDB /\ IdleAuth /\ IdlePage /\ IdleClassifier
    /\ IdleServices
    /\ monitor = NoMonitor
    /\ inflight = NoCalls

NextMonitor ==
    \/ StartMonitoring
    \/ SetRunning
    \/ LoopTest
    \/ Poll
    \/ Sleep
    \/ StopMonitoring

SpecMonitor == InitMonitor /\ [][NextMonitor]_vars /\ WF_vars(MonitorThread)

\* one daycare, its admin and its parent, without children
InitTraining ==
    /\ IdleRegistry /\ IdleStorage /\ IdleAuth /\ IdlePage /\ IdleClassifier
    /\ IdleServices /\ IdleThreads
    /\ users = {u \in TenantUsers : u.daycare_id = "A"}
    /\ children = {}
    /\ parent_children = {}
    /\ photos = {}
    /\ activities = {}
    /\ next_id = [users |-> 5, children |-> 1, photos |-> 1, activities |-> 1]

NextTraining ==
    \/ EnrollAndTrain
    \/ TrainChildImages
    \/ RegisterChildFace

SpecTraining == InitTraining /\ [][NextTraining]_vars

\* two callers on an empty users table
InitRegisterRace ==
    /\ IdleRegistry /\ IdleStorage /\ IdleDB /\ IdleAuth /\ IdlePage /\ IdleClassifier
    /\ IdleServices /\ IdleThreads

NextRegisterRace ==
    \/ \E c \in Callers : RegisterQuery(c)
    \/ \E c \in Callers : RegisterCommit(c)

SpecRegisterRace == InitRegisterRace /\ [][NextRegisterRace]_vars

\* two callers on the children of a daycare
InitTrainRace ==
    /\ IdleRegistry /\ IdleStorage /\ IdleAuth /\ IdlePage /\ IdleClassifier
    /\ IdleServices /\ IdleThreads
    /\ users = TenantUsers
    /\ children = ProcChildren
    /\ parent_children = {<<3, 1>>, <<3, 2>>}
    /\ photos = {}
    /\ activities = {}
    /\ next_id = [users |-> 5, children |-> 3, photos |-> 1, activities |-> 1]

NextTrainRace ==
    \/ \E c \in Callers : TrainQuery(c)
    \/ \E c \in Callers : TrainCommit(c)

SpecTrainRace == InitTrainRace /\ [][NextTrainRace]_vars
(***************************************************************************)
(* Claims C1-C3, checked under SpecRegistry.                               *)
(***************************************************************************)

\* C1: every successful call of a service getter returns the instance the first
\* successful call created, and each service is constructed at most once.
C1_SingletonGetters ==
    \A g \in Getters :
        /\ reg_hist[g].constructed <= 1
        /\ reg_hist[g].returned \subseteq {reg_hist[g].first}
        /\ (reg_hist[g].first = 0 => reg_hist[g].returned = {})

\* a getter has returned twice in one process
C1_Witness ==
    \E g \in Getters : reg_hist[g].ok_calls >= 2 /\ reg_hist[g].first # 0

\* C2: a registry asked to build its service under an unrecognized provider name
\* fails; it never hands back a service built on a substitute adapter.
C2_UnknownProviderFails ==
    /\ (last_call.getter = "storage" /\ cfg.STORAGE_TYPE \notin RecognizedStorage
            => last_call.outcome # "returned")
    /\ (last_call.getter = "llm" /\ cfg.LLM_PROVIDER \notin RecognizedLLM
            => last_call.outcome # "returned")
    /\ (last_call.getter = "llm_service" /\ Lower(cfg.LLM_PROVIDER) \notin RecognizedLLM
            => last_call.outcome # "returned")

\* C3: a process whose provider selection is unrecognized does not get past
\* start-up, and no getter call ends in a configuration error.
C3_RejectedAtStartup ==
    /\ (phase = "running" =>
            /\ cfg.LLM_PROVIDER \in RecognizedLLM
            /\ cfg.STORAGE_TYPE \in RecognizedStorage)
    /\ last_call.outcome # "ValueError"

C5_TenantIsolation ==
    shown.page \in {"staff_dashboard", "admin_panel", "upload_photos"} =>
        \A r \in shown.rows : r.daycare_id = shown.daycare_id

\* C6: a photo shown to a parent, on the Parent Portal or in the AI Chat photo
\* grid, is APPROVED and is of a child linked to that parent.
C6_ParentSeesApprovedOnly ==
    (shown.page \in {"parent_portal", "ai_chat"}
       /\ \E u \in users : u.id = shown.user /\ u.role = "parent") =>
        \A p \in shown.photos :
            /\ p.status = APPROVED
            /\ \E c \in children :
                 /\ c.id = p.child_id
                 /\ (c.parent_id = shown.user \/ <<shown.user, c.id>> \in parent_children)

\* C7: on every protected page a request is handled in the order authenticate,
\* authorize by role, query, render: tenant data is queried or rendered only
\* in a request whose session held a user with a role the page allows, and a
\* request stopped by require_auth has queried and rendered nothing.
C7_AuthBeforeData ==
    /\ (request.queried \/ request.rendered \/ request.step \in {"query", "render", "done"}) =>
          /\ request.session.has_user_id
          /\ request.session.role \in allowed_roles(request.page)
    /\ request.rendered => request.queried
    /\ request.step = "stopped" =>
          /\ ~request.queried /\ ~request.rendered
          /\ (~request.session.has_user_id
                \/ request.session.role \notin allowed_roles(request.page))

\* a logged-in user whose role the page does not allow has been stopped
C7_Witness ==
    /\ request.step = "stopped"
    /\ request.session.has_user_id
    /\ request.session.role \notin allowed_roles(request.page)

\* C8: after any sequence of register_user calls, authenticate_user returns the
\* user exactly when a user with that email exists, is active and was
\* registered with that password; otherwise it returns None.
C8_AuthenticateExactly ==
    auth_result.op = "authenticate" =>
        LET matches == {r \in registered :
                          /\ r.email = auth_result.email
                          /\ r.password = auth_result.password
                          /\ \E u \in users : u.id = r.id /\ u.email = r.email /\ u.is_active}
        IN /\ auth_result.raised = "none"
           /\ IF matches = {} THEN auth_result.user = 0
              ELSE auth_result.user \in {r.id : r \in matches}

\* a registered user has been refused for a wrong password
C8_Witness ==
    /\ auth_result.op = "authenticate"
    /\ auth_result.user = 0
    /\ \E r \in registered : r.email = auth_result.email /\ r.password # auth_result.password

\* C9: register_user with an email already registered returns (None, error),
\* creates no user and changes no existing user, so every user keeps the
\* password and names of its registration and no two users share an email.
C9_DuplicateRejected ==
    /\ (auth_result.op = "register" /\ auth_result.existed) =>
          /\ auth_result.user = 0
          /\ auth_result.error # "none"
          /\ auth_result.raised = "none"
          /\ users = auth_result.before
    /\ \A u, v \in users : u.email = v.email => u = v
    /\ \A r \in registered :
          \E u \in users :
             /\ u.id = r.id /\ u.email = r.email /\ u.last_name = r.last_name
             /\ u.password_hash = r.password_hash
    /\ Cardinality(users) = Cardinality(registered)

\* a second registration of an email, with another password, has been refused
C9_Witness ==
    /\ auth_result.op = "register"
    /\ auth_result.existed
    /\ auth_result.user = 0
    /\ \E r \in registered : r.email = auth_result.email /\ r.password # auth_result.password

C11_CategoryFromCaption ==
    \A p \in photos : \A a \in activities :
        a.id = p.activity_id =>
            a.activity_type = _detect_activity_from_text(p.caption \o <<" ">> \o p.file_name)

\* C12: every notification send operation makes at most one dispatch attempt
\* per call; a failed attempt is returned as (False, message) and is not
\* retried, so no channel has more attempts than calls were made.
C12_OneAttemptNoRetry ==
    /\ \A n \in DOMAIN notif.last.results :
          LET r == notif.last.results[n] IN
          /\ Len(r.attempts) <= 1
          /\ r.outcome = "raises" => r.returned[1] = FALSE
          /\ r.outcome = "ok" => r.returned[1] = TRUE
    /\ \A m, n \in DOMAIN notif.last.results :
          notif.last.results[m].channel = notif.last.results[n].channel => m = n
    /\ \A c \in DOMAIN notif.attempts : notif.attempts[c] <= notif.calls

\* an SMS whose dispatch failed has been reported to the caller
C12_Witness ==
    /\ notif.last.op = "send_enrollment_sms"
    /\ notif.last.results[1].outcome = "raises"
    /\ notif.last.results[1].returned[1] = FALSE
    /\ notif.attempts.sms = notif.calls

\* C13: when the LLM provider fails while a photo is processed, the AI step
\* did not happen: the call stores no description on the photo and creates no
\* Activity row.
C13_FailedStepDidNotHappen ==
    [][(ProcessUploadedPhoto /\ proc'.llm_failed) =>
          /\ activities' = activities
          /\ \A p \in photos : \A q \in photos' :
                q.id = p.id => q.ai_generated_description = p.ai_generated_description]_vars

\* C14: the automated operations on an existing photo (process_uploaded_photo,
\* reprocess_photo, auto_tag_photo, train_child) leave its status, approved_by
\* and approved_at as they are: every step keeps these columns of every
\* photo, or is a manual approve or reject and none of the automated
\* operations.
C14_StatusOnlyManual ==
    [][LET Kept == \A p \in photos : \E q \in photos' :
                      /\ q.id = p.id
                      /\ q.status = p.status
                      /\ q.approved_by = p.approved_by
                      /\ q.approved_at = p.approved_at
       IN \/ Kept
          \/ /\ ApprovePhoto \/ RejectPhoto
             /\ ~(ProcessUploadedPhoto \/ ReprocessPhoto \/ AutoTagPhoto \/ TrainChild)]_vars

\* a pending photo has been processed and tagged with the child in it
C14_Witness ==
    /\ proc.op = "process"
    /\ proc.success
    /\ \E p \in photos : p.auto_tagged /\ p.status = PENDING /\ p.approved_by = 0

\* C15: the AI write-back is one-shot per photo: a process_uploaded_photo
\* call on a photo that has been processed before leaves the photo and
\* activity rows as they are.
C15_OneShot ==
    [][\/ photos' = photos /\ activities' = activities
       \/ ~ \E p \in photos : p.id = proc'.photo_id /\ p.face_recognition_complete
       \/ ~ProcessUploadedPhoto]_vars

\* C16: _detect_activity_from_text lowers its input and returns the first
\* category, in the order meal, nap, play, learning, outdoor, art, that has a
\* keyword occurring in the text; a text with "playground" in it never yields
\* outdoor (it yields play unless a meal or nap keyword occurs too), and
\* "play" is returned only for a hit of the play row or when nothing matches.
C16_FirstInTableOrder ==
    LET order == <<"meal", "nap", "play", "learning", "outdoor", "art">>
        Hit(k) == \E n \in DOMAIN ACTIVITY_PATTERNS[k].keywords :
                      Contains(ACTIVITY_PATTERNS[k].keywords[n], lower(caption))
        playground == <<"p", "l", "a", "y", "g", "r", "o", "u", "n", "d">>
    IN category # "none" =>
          /\ \A k \in 1 .. 6 :
                ACTIVITY_PATTERNS[k].category = order[k]
                /\ ((Hit(k) /\ \A m \in 1 .. (k - 1) : ~Hit(m)) => category = order[k])
          /\ (\A k \in 1 .. 6 : ~Hit(k)) => category = "play"
          /\ Contains(playground, lower(caption)) =>
                /\ category # "outdoor"
                /\ (~Hit(1) /\ ~Hit(2)) => category = "play"
          /\ category = "play" => (Hit(3) \/ \A k \in 1 .. 6 : ~Hit(k))

\* a text with "playground", a keyword of the play and of the outdoor row,
\* has been classified as play
C16_Witness ==
    /\ category = "play"
    /\ Contains(<<"p", "l", "a", "y", "g", "r", "o", "u", "n", "d">>, lower(caption))
    /\ Len(caption) > 10

\* C17: _detect_mood_from_text is deterministic: called twice on the same
\* caption it returns the same mood, also for a caption without mood keyword.
C17_MoodDeterministic == (category # "none" /\ again # "none") => category = again

\* C18: identify_child returns the child of the closest stored encoding among
\* the encodings of active children of the daycare that are within tolerance
\* 0.6 of the query (the first such encoding the loops meet on a tie), and
\* None when there is none; the child returned is active, of the daycare, and
\* has an encoding within tolerance.
C18_ClosestWithinTolerance ==
    ident.returned =>
      LET rows == ident.order
          Near == {pos \in {<<n, k>> : n \in DOMAIN rows, k \in 1 .. 2} :
                     /\ pos[2] <= Len(rows[pos[1]].face_encodings)
                     /\ rows[pos[1]].face_encodings[pos[2]] # Malformed
                     /\ face_distance(rows[pos[1]].face_encodings[pos[2]],
                                      ident.face_encoding) <= 6}
          Dist(pos) == face_distance(rows[pos[1]].face_encodings[pos[2]], ident.face_encoding)
          Before(pos, other) == pos[1] < other[1] \/ (pos[1] = other[1] /\ pos[2] <= other[2])
      IN /\ \A c \in children :
               (\E n \in DOMAIN rows : rows[n] = c) <=>
                  (c.daycare_id = ident.daycare_id /\ c.is_active)
         /\ Near = {} => ident.result = 0
         /\ Near # {} =>
               \E pos \in Near :
                  /\ \A other \in Near : Dist(pos) <= Dist(other)
                  /\ \A other \in Near : Dist(other) = Dist(pos) => Before(pos, other)
                  /\ ident.result = rows[pos[1]].id
         /\ ident.result # 0 =>
               \E c \in children :
                  /\ c.id = ident.result
                  /\ c.daycare_id = ident.daycare_id
                  /\ c.is_active
                  /\ c.face_encodings # << >>

\* two children of the daycare have an encoding at the same distance from the
\* query, and the one met first has been returned
C18_Witness ==
    /\ ident.returned
    /\ ident.face_encoding = 7
    /\ Len(ident.order) = 2
    /\ ident.order[1].face_encodings = <<10>>
    /\ ident.order[2].face_encodings = <<4>>
    /\ ident.result = ident.order[1].id

\* C19: for every reply of the provider and every time of day that is empty or
\* HH:MM, analyze_photo_activity returns an activity_type of {meal, nap, play,
\* learning, outdoor, art, other}; a type outside the set becomes "other";
\* when the call or the JSON parsing fails the result is the default with
\* confidence 0.5: meal for hours 11 to 13, nap with mood calm for hours 14
\* to 15, play with mood happy otherwise.
C19_ValidTypeOrDefault ==
    analysis.result # NoResult =>
      LET result == analysis.result
          time == analysis.time_of_day
          value(c) == CASE c = "0" -> 0 [] c = "1" -> 1 [] c = "2" -> 2 [] c = "3" -> 3
                        [] c = "4" -> 4 [] c = "5" -> 5 [] c = "6" -> 6 [] c = "7" -> 7
                        [] c = "8" -> 8 [] c = "9" -> 9
          hour == 10 * value(time[1]) + value(time[2])
          body == strip(analysis.chat.reply)
          json == IF Len(body) > 2 /\ body[1] \in {"<fence>json", "<fence>"}
                  THEN SubSeq(body, 2, Len(body) - 1) ELSE body
          parsed == ~analysis.chat.raised /\ Len(json) = 1
                    /\ json[1] \in {"{meal}", "{dance}", "{}"}
      IN /\ result.activity_type \in
               {"meal", "nap", "play", "learning", "outdoor", "art", "other"}
         /\ parsed =>
               /\ result.from = "llm"
               /\ json[1] = "{meal}" => result.activity_type = "meal"
               /\ json[1] \in {"{dance}", "{}"} => result.activity_type = "other"
         /\ ~parsed =>
               /\ result.from = "default"
               /\ result.confidence = "0.5"
               /\ IF time # << >> /\ 11 <= hour /\ hour <= 13
                  THEN result.activity_type = "meal"
                  ELSE IF time # << >> /\ 14 <= hour /\ hour <= 15
                  THEN result.activity_type = "nap" /\ result.mood = "calm"
                  ELSE result.activity_type = "play" /\ result.mood = "happy"

\* at 15:30 a fenced reply with a type outside the set has been turned into
\* "other"
C19_Witness ==
    /\ analysis.chat.reply = <<"<fence>json", "{dance}", "<fence>">>
    /\ analysis.time_of_day = <<"1", "5", ":", "3", "0">>
    /\ analysis.result.activity_type = "other"
    /\ analysis.result.from = "llm"

C21_BatchSummary ==
    proc.op = "batch" =>
      LET s == proc.summary
          ids == proc.photo_ids
          NoData(n) == ids[n] \notin DOMAIN proc.image_data_map
                       \/ proc.image_data_map[ids[n]].size = 0
          Succeeded == {k \in DOMAIN s.results : s.results[k].result.success}
          Faces[ks \in SUBSET DOMAIN s.results] ==
              IF ks = {} THEN 0
              ELSE LET k == CHOOSE k \in ks : TRUE IN
                   s.results[k].result.faces_detected + Faces[ks \ {k}]
      IN /\ s.total = Len(ids)
         /\ s.total = s.successful + s.failed
         /\ s.successful = Cardinality(Succeeded)
         /\ s.failed = Cardinality({n \in DOMAIN ids : NoData(n)})
                       + Cardinality(DOMAIN s.results \ Succeeded)
         /\ Len(s.results) = Cardinality({n \in DOMAIN ids : ~NoData(n)})
         /\ \A k \in DOMAIN s.results :
              \E n \in DOMAIN ids : ids[n] = s.results[k].photo_id /\ ~NoData(n)
         /\ s.faces_detected = Faces[Succeeded]
         /\ {s.children_identified[n] : n \in DOMAIN s.children_identified}
            = UNION {{s.results[k].result.children_identified[n] :
                        n \in DOMAIN s.results[k].result.children_identified} :
                     k \in Succeeded}
         /\ \A a, b \in DOMAIN s.children_identified :
              s.children_identified[a] = s.children_identified[b] => a = b

\* a batch of three ids: one without image data, one whose commit failed
\* after two faces were detected, one processed with both children found
C21_Witness ==
    /\ proc.op = "batch"
    /\ Len(proc.photo_ids) = 3
    /\ proc.summary.successful = 1
    /\ proc.summary.failed = 2
    /\ Len(proc.summary.results) = 2
    /\ \E k \in DOMAIN proc.summary.results :
         /\ ~proc.summary.results[k].result.success
         /\ proc.summary.results[k].result.faces_detected = 2
    /\ proc.summary.faces_detected = 2
    /\ Len(proc.summary.children_identified) = 2

\* C22: the "Activities Today" statistic of the Staff Dashboard equals the
\* number of activities of the user's daycare whose activity_time is today; it
\* does not depend on the photos, and activities of other daycares do not count
C22_ActivitiesToday ==
    shown.page = "staff_dashboard" =>
        shown.activities_today
        = Cardinality({a \in activities : a.daycare_id = shown.daycare_id /\ a.today})

\* C23: start_monitoring polls until stop_monitoring is called; once
\* stop_monitoring has been called, at any moment from another thread,
\* start_monitoring eventually returns; an exception raised while listing or
\* processing files in a cycle does not end the loop and does not advance
\* last_sync_time
C23_StopEndsMonitoring ==
    /\ [](monitor.pc = "returned" => monitor.stop_called)
    /\ [][(Poll /\ monitor'.cycle \in CycleRaised)
          => /\ monitor'.pc = "sleep"
             /\ monitor'.last_sync_time = monitor.last_sync_time]_vars
    /\ (monitor.stop_called ~> monitor.pc = "returned")

\* C25: after any sequence of child creations on the Enroll Child page and the
\* Admin Panel, every child with a primary parent_id has that parent in its
\* parents association, so the lookup by Child.parent_id (AI Chat, Voice Call)
\* and the lookup by the association (Parent Portal) give every parent the
\* same children
C25_ParentLookupsAgree ==
    /\ \A c \in children : c.parent_id # 0 => <<c.parent_id, c.id>> \in parent_children
    /\ \A user \in users :
         user.role = "parent" => Chat_children(user) = Portal_children(user)

\* C26: once an admin has deleted a user, or the user is inactive, no later
\* page request of a session the user opened earlier passes require_auth: a
\* request passes only for a user that exists, is active and has the
\* session's role in the database
C26_AuthReflectsDatabase ==
    [][(RequireAuth /\ request'.step = "query")
       => \E u \in users : /\ u.id = session.user_id
                           /\ u.is_active
                           /\ u.role = session.role]_vars

\* C24: in every state reached through enrollment, train_child and
\* register_child_face a child's training_photo_count is the number of its
\* face_encodings; a train_child call that finds no face in any image, or
\* names a missing child, returns success False and changes neither field; on
\* success encodings_added + failed_images is the number of images given
C24_TrainingCount ==
    /\ \A c \in children : c.training_photo_count = Len(c.face_encodings)
    /\ proc.op \in {"enroll", "train_child", "register_child_face"} =>
         LET images == proc.training_images
             no_face == \A k \in DOMAIN images : images[k] = << >>
             missing == \A c \in proc.before : c.id # proc.child_id
         IN /\ (no_face \/ missing) => ~proc.result.success /\ children = proc.before
            /\ (proc.op # "register_child_face" /\ proc.result.success)
                 => proc.result.encodings_added + proc.result.failed_images = Len(images)

\* an enrolled child trained again with three images, one of them without a face
C24_Witness ==
    /\ proc.op = "train_child"
    /\ proc.result.success
    /\ proc.result.encodings_added = 2
    /\ proc.result.failed_images = 1
    /\ \E c \in children : c.id = proc.child_id /\ c.training_photo_count = 3

\* C27: when two register_user calls with the same email run concurrently in
\* separate sessions, under every interleaving exactly one creates the user
\* and the other returns (None, "Email already registered"); neither raises,
\* and at most one user row with that email exists
C27_OneRegisters ==
    /\ \A email \in Emails : Cardinality({u \in users : u.email = email}) <= 1
    /\ (/\ \A c \in Callers : inflight[c].op = "register_user" /\ inflight[c].pc = "returned"
        /\ inflight[1].args = inflight[2].args)
       => /\ \A c \in Callers : inflight[c].result.raised = "none"
          /\ \E c, d \in Callers :
               /\ c # d
               /\ inflight[c].result.user # 0
               /\ inflight[d].result.user = 0
               /\ inflight[d].result.error = "Email already registered"

\* C28: when two train_child calls for the same child run concurrently, under
\* every interleaving the stored face_encodings afterwards hold the encodings
\* added by both calls and training_photo_count is the number stored
C28_NoLostTraining ==
    (/\ \A c \in Callers : /\ inflight[c].op = "train_child"
                           /\ inflight[c].pc = "returned"
                           /\ inflight[c].result.success
     /\ inflight[1].args = inflight[2].args)
    => \A r \in children :
         r.id = inflight[1].args[1] =>
           /\ r.training_photo_count = Len(r.face_encodings)
           /\ \E before \in ProcChildren :
                /\ before.id = r.id
                /\ Len(r.face_encodings)
                   = Len(before.face_encodings) + inflight[1].result.encodings_added
                     + inflight[2].result.encodings_added
====
